---- MODULE Spec2Model ----
(***************************************************************************)
(* Attendance automation: execution lock, scheduler tick, manual trigger,  *)
(* queue processor, eligibility engine, action executor, status tracker    *)
(* and the user sync service, as a state machine.  Every await of the      *)
(* source is a point where another handler of the single event loop may    *)
(* run; the code between two awaits is one atomic action.                  *)
(***************************************************************************)
EXTENDS Integers, Sequences, FiniteSets, TLC

VARIABLES
    executionLock,  \* execution-lock.util.ts: the module-level lock record
    today,          \* calendar date of the last reading of the wall clock
    now,            \* minute of the day of the last reading of the wall clock
    users,          \* users.json: the array of user records
    logs,           \* attendance_logs.json: appended log entries
    pc,             \* position of every handler (callback or request)
    answer,         \* the last answer given: by whom, and the status or log line
    ctx,            \* processAttendanceQueue: context of the running cycle
    held,           \* array read from the file and not yet written back
    eligible,       \* processAttendanceQueue: logins then logouts to process
    idx,            \* index of the entry being processed
    attempt,        \* executeAttendanceAction: attempt number of the loop
    res,            \* executeAttendanceAction: lastResult, lastError, thrown error
    req,            \* syncUser: the request body being served
    cycles,         \* number of processAttendanceQueue invocations so far
    syncs,          \* number of sync requests served so far
    faults,         \* number of store or provider errors injected so far
    lockTrace,      \* direct calls of the lock API and what they returned
    timeCall        \* direct call of a time utility: arguments and result

vars == <<executionLock, today, now, users, logs, pc, answer, ctx, held,
          eligible, idx, attempt, res, req, cycles, syncs, faults, lockTrace,
          timeCall>>

-----------------------------------------------------------------------------
(* Bounds of the model *)

MaxDate == 2
MaxCycles == 2
MaxSyncs == 1
MaxFaults == 1
MaxTrace == 4
MaxRequests == 3

(* Program constants *)

TIME_WINDOW_MINUTES == 6
MAX_RETRY_ATTEMPTS == 3
EXTENDED_RETRY_HOURS == 2
EMERGENCY_LOGOUT_START == <<23, 0>>
EMERGENCY_LOGOUT_END == <<23, 59>>

(* "undefined" of an optional string, time or timestamp *)
Undefined == "undefined"
NoTime == <<>>

Truthy(s) == s \notin {Undefined, ""}

-----------------------------------------------------------------------------
(* Time utilities.  An HH:MM string is the pair <<HH, MM>>. *)

Abs(x) == IF x < 0 THEN -x ELSE x
Min(a, b) == IF a <= b THEN a ELSE b

ValidTime(t) == Len(t) = 2 /\ t[1] \in 0..23 /\ t[2] \in 0..59

\* parseTime: minutes since midnight; -1 stands for the thrown Error
parseTime(t) == IF ValidTime(t) THEN t[1] * 60 + t[2] ELSE -1

\* formatTime: zero padded HH:MM of a Date
formatTime(minute) == <<minute \div 60, minute % 60>>

\* JavaScript '<' on two zero padded HH:MM strings: lexicographic
StrLess(a, b) == a[1] < b[1] \/ (a[1] = b[1] /\ a[2] < b[2])

\* getCurrentDayOfWeek: Date.getDay() is 0 for Sunday; day 1 is a Monday
getCurrentDayOfWeek(date) ==
    LET jsDay == date % 7 IN IF jsDay = 0 THEN 7 ELSE jsDay

\* JavaScript '%': the remainder takes the sign of the dividend
JsRem(a, b) == IF a >= 0 THEN a % b ELSE -((-a) % b)

\* a randomizeTime that does not wrap at midnight
randomizeTimeNoWrap(baseTime, windowMinutes, draw) ==
    LET randomizedMinutes == parseTime(baseTime) + draw - windowMinutes
    IN  <<randomizedMinutes \div 60, JsRem(randomizedMinutes, 60)>>

\* randomizeTime; draw is Math.floor(Math.random() * (2 * windowMinutes + 1))
randomizeTime(baseTime, windowMinutes, draw) ==
    IF parseTime(baseTime) < 0 THEN baseTime
    ELSE LET randomOffset == draw - windowMinutes
             raw == parseTime(baseTime) + randomOffset
             randomizedMinutes == IF raw < 0 THEN raw + 1440
                                  ELSE IF raw >= 1440 THEN raw - 1440
                                  ELSE raw
         IN  <<randomizedMinutes \div 60, JsRem(randomizedMinutes, 60)>>

\* a window test on the plain difference, without the wrap at midnight
isWithinTimeWindowNoWrap(currentTime, targetTime, windowMinutes) ==
    Abs(parseTime(currentTime) - parseTime(targetTime)) <= windowMinutes

isWithinTimeWindow(currentTime, targetTime, windowMinutes) ==
    IF parseTime(currentTime) < 0 \/ parseTime(targetTime) < 0 THEN FALSE
    ELSE LET diffMinutes == Abs(parseTime(currentTime) - parseTime(targetTime))
             wrapAroundDiff == 1440 - diffMinutes
             actualDiff == Min(diffMinutes, wrapAroundDiff)
         IN  actualDiff <= windowMinutes

isAfterScheduledTime(currentTime, scheduledTime) ==
    IF parseTime(currentTime) < 0 \/ parseTime(scheduledTime) < 0 THEN FALSE
    ELSE parseTime(currentTime) > parseTime(scheduledTime)

\* a horizon test that leaves out the last minute of the horizon
isWithinHoursAfterStrict(currentTime, scheduledTime, hours) ==
    /\ parseTime(currentTime) > parseTime(scheduledTime)
    /\ parseTime(currentTime) - parseTime(scheduledTime) < hours * 60

isWithinHoursAfter(currentTime, scheduledTime, hours) ==
    IF parseTime(currentTime) < 0 \/ parseTime(scheduledTime) < 0 THEN FALSE
    ELSE IF parseTime(currentTime) <= parseTime(scheduledTime) THEN FALSE
    ELSE parseTime(currentTime) - parseTime(scheduledTime) <= hours * 60

\* a range test that leaves out the end of the range
isBetweenTimesOpenEnd(currentTime, startTime, endTime) ==
    /\ parseTime(currentTime) >= parseTime(startTime)
    /\ parseTime(currentTime) < parseTime(endTime)

isBetweenTimes(currentTime, startTime, endTime) ==
    IF parseTime(currentTime) < 0 \/ parseTime(startTime) < 0
       \/ parseTime(endTime) < 0 THEN FALSE
    ELSE /\ parseTime(currentTime) >= parseTime(startTime)
         /\ parseTime(currentTime) <= parseTime(endTime)

-----------------------------------------------------------------------------
(* Execution lock *)

LockSources == {"cron", "manual"}

Unlocked == [locked |-> FALSE, source |-> Undefined, startTime |-> NoTime]

\* a re-entrant acquireLock: the holder asking again takes the lock anew
acquireLockStateReentrant(lock, source, startTime) ==
    IF lock.locked /\ lock.source # source THEN lock
    ELSE [locked |-> TRUE, source |-> source, startTime |-> startTime]

\* an acquireLock that does not look at the flag
acquireLockAlways(lock, source) == TRUE

\* an acquireLock that refuses only the holder itself
acquireLockFromOther(lock, source) == ~lock.locked \/ lock.source # source

\* a releaseLock that clears the flag only
releaseLockFlagOnly(lock) == [lock EXCEPT !.locked = FALSE]

\* a releaseLock that leaves the flag set
releaseLockNever(lock) == lock

\* acquireLock: the lock after the call, and the value returned
acquireLockState(lock, source, startTime) ==
    IF lock.locked THEN lock
    ELSE [locked |-> TRUE, source |-> source, startTime |-> startTime]

acquireLock(lock, source) == ~lock.locked

releaseLock(lock) == IF ~lock.locked THEN lock ELSE Unlocked

isLocked(lock) == lock.locked

getLockStatus(lock) ==
    [locked |-> lock.locked, source |-> lock.source, startTime |-> lock.startTime]

-----------------------------------------------------------------------------
(* User records.  An optional todayStatus is a sequence of length 0 or 1.  *)
(* An encrypted password is the pair <<iv, plaintext>>: encrypt draws a   *)
(* random 16 byte iv at every call, which no earlier call has drawn.       *)


\* the two Math.random() results of one getInitialTodayStatus call
DrawPairs == {<<0, 2 * TIME_WINDOW_MINUTES>>, <<2 * TIME_WINDOW_MINUTES, 0>>}

encrypt(password, iv) == <<iv, password>>

\* decrypt: the plaintext, or Undefined for the thrown "Decryption failed"
decrypt(encryptedPassword) ==
    IF Len(encryptedPassword) = 2 THEN encryptedPassword[2] ELSE Undefined

HasStatus(user) == Len(user.todayStatus) = 1

Status(user) == user.todayStatus[1]

\* user.todayStatus?.date
StatusDate(user) == IF HasStatus(user) THEN Status(user).date ELSE 0

\* getInitialTodayStatus; draws are the two Math.random() results
getInitialTodayStatus(date, user, draws) ==
    [date |-> date,
     loginAttempts |-> 0,
     loginSuccess |-> FALSE,
     randomizedLoginTime |->
         randomizeTime(user.loginTime, TIME_WINDOW_MINUTES, draws[1]),
     actualInTime |-> Undefined,
     logoutAttempts |-> 0,
     logoutSuccess |-> FALSE,
     randomizedLogoutTime |->
         randomizeTime(user.logoutTime, TIME_WINDOW_MINUTES, draws[2]),
     actualOutTime |-> Undefined,
     lastError |-> Undefined]

\* a shouldResetStatus that asks for a reset at every call
shouldResetStatusAlways(currentDate, statusDate) == TRUE

\* shouldResetStatus; a missing statusDate is 0
shouldResetStatus(currentDate, statusDate) ==
    IF statusDate = 0 THEN TRUE ELSE statusDate # currentDate

resetUserStatusIfNeeded(user, currentDate, draws) ==
    IF shouldResetStatus(currentDate, StatusDate(user))
    THEN [user EXCEPT !.todayStatus =
              <<getInitialTodayStatus(currentDate, user, draws)>>]
    ELSE user

\* an updateActionStatus without the check of the date: the update is
\* applied to the status it finds
updateActionStatusWithoutReset(user, action, success, error, actualTime, currentDate, draws) ==
    LET status == IF HasStatus(user) THEN Status(user)
                  ELSE getInitialTodayStatus(currentDate, user, draws)
        updatedStatus ==
            IF action = "login"
            THEN [status EXCEPT
                    !.loginAttempts = status.loginAttempts + 1,
                    !.loginSuccess = success,
                    !.actualInTime = IF Truthy(actualTime) THEN actualTime
                                     ELSE status.actualInTime,
                    !.lastError = IF Truthy(error) THEN error
                                  ELSE status.lastError]
            ELSE [status EXCEPT
                    !.logoutAttempts = status.logoutAttempts + 1,
                    !.logoutSuccess = success,
                    !.actualOutTime = IF Truthy(actualTime) THEN actualTime
                                      ELSE status.actualOutTime,
                    !.lastError = IF Truthy(error) THEN error
                                  ELSE status.lastError]
    IN  [user EXCEPT !.todayStatus = <<updatedStatus>>]

\* an updateActionStatus that stores the error it is given, present or not
updateActionStatusClearingError(user, action, success, error, actualTime, currentDate, draws) ==
    LET currentStatus == IF HasStatus(user) THEN Status(user)
                         ELSE getInitialTodayStatus(currentDate, user, draws)
        status == IF shouldResetStatus(currentDate, currentStatus.date)
                  THEN getInitialTodayStatus(currentDate, user, draws)
                  ELSE currentStatus
        updatedStatus ==
            IF action = "login"
            THEN [status EXCEPT
                    !.loginAttempts = status.loginAttempts + 1,
                    !.loginSuccess = success,
                    !.actualInTime = IF Truthy(actualTime) THEN actualTime
                                     ELSE status.actualInTime,
                    !.lastError = IF Truthy(error) THEN error ELSE Undefined]
            ELSE [status EXCEPT
                    !.logoutAttempts = status.logoutAttempts + 1,
                    !.logoutSuccess = success,
                    !.actualOutTime = IF Truthy(actualTime) THEN actualTime
                                      ELSE status.actualOutTime,
                    !.lastError = IF Truthy(error) THEN error ELSE Undefined]
    IN  [user EXCEPT !.todayStatus = <<updatedStatus>>]

\* an updateActionStatus that stores the actual time it is given, present
\* or not
updateActionStatusOverwritingTime(user, action, success, error, actualTime, currentDate, draws) ==
    LET currentStatus == IF HasStatus(user) THEN Status(user)
                         ELSE getInitialTodayStatus(currentDate, user, draws)
        status == IF shouldResetStatus(currentDate, currentStatus.date)
                  THEN getInitialTodayStatus(currentDate, user, draws)
                  ELSE currentStatus
        updatedStatus ==
            IF action = "login"
            THEN [status EXCEPT
                    !.loginAttempts = status.loginAttempts + 1,
                    !.loginSuccess = success,
                    !.actualInTime = actualTime,
                    !.lastError = IF Truthy(error) THEN error
                                  ELSE status.lastError]
            ELSE [status EXCEPT
                    !.logoutAttempts = status.logoutAttempts + 1,
                    !.logoutSuccess = success,
                    !.actualOutTime = actualTime,
                    !.lastError = IF Truthy(error) THEN error
                                  ELSE status.lastError]
    IN  [user EXCEPT !.todayStatus = <<updatedStatus>>]

\* updateActionStatus; currentDate is getCurrentDate(), read when the function
\* runs (the ISO stamps loginTime and logoutTime of the last attempt, which
\* nothing reads, are left out)
updateActionStatus(user, action, success, error, actualTime, currentDate, draws) ==
    LET currentStatus == IF HasStatus(user) THEN Status(user)
                         ELSE getInitialTodayStatus(currentDate, user, draws)
        status == IF shouldResetStatus(currentDate, currentStatus.date)
                  THEN getInitialTodayStatus(currentDate, user, draws)
                  ELSE currentStatus
        updatedStatus ==
            IF action = "login"
            THEN [status EXCEPT
                    !.loginAttempts = status.loginAttempts + 1,
                    !.loginSuccess = success,
                    !.actualInTime = IF Truthy(actualTime) THEN actualTime
                                     ELSE status.actualInTime,
                    !.lastError = IF Truthy(error) THEN error
                                  ELSE status.lastError]
            ELSE [status EXCEPT
                    !.logoutAttempts = status.logoutAttempts + 1,
                    !.logoutSuccess = success,
                    !.actualOutTime = IF Truthy(actualTime) THEN actualTime
                                      ELSE status.actualOutTime,
                    !.lastError = IF Truthy(error) THEN error
                                  ELSE status.lastError]
    IN  [user EXCEPT !.todayStatus = <<updatedStatus>>]

\* Array.prototype.findIndex(u => u.id === id): 0 stands for -1
FindIndex(arr, id) ==
    IF \E i \in 1..Len(arr) : arr[i].id = id
    THEN CHOOSE i \in 1..Len(arr) :
            /\ arr[i].id = id
            /\ \A j \in 1..(i - 1) : arr[j].id # id
    ELSE 0

-----------------------------------------------------------------------------
(* Eligibility engine *)

\* the login rule without its check of loginSuccess
needsLoginNoLatch(user, currentTime, currentDay) ==
    /\ StrLess(currentTime, EMERGENCY_LOGOUT_START)
    /\ \/ isWithinTimeWindow(currentTime, user.loginTime, TIME_WINDOW_MINUTES)
       \/ isAfterScheduledTime(currentTime, user.loginTime)

\* the logout rule without its check of logoutSuccess
needsLogoutNoLatch(user, currentTime, currentDay) ==
    \/ isWithinTimeWindow(currentTime, user.logoutTime, TIME_WINDOW_MINUTES)
    \/ /\ HasStatus(user) /\ Status(user).loginSuccess
       /\ isAfterScheduledTime(currentTime, user.logoutTime)
    \/ isBetweenTimes(currentTime, EMERGENCY_LOGOUT_START, EMERGENCY_LOGOUT_END)

\* a login rule that knows the tolerance window only
needsLoginWindowOnly(user, currentTime, currentDay) ==
    /\ ~(HasStatus(user) /\ Status(user).loginSuccess)
    /\ StrLess(currentTime, EMERGENCY_LOGOUT_START)
    /\ isWithinTimeWindow(currentTime, user.loginTime, TIME_WINDOW_MINUTES)

\* a login rule whose attempt limit also holds after the retry horizon
needsLoginCapped(user, currentTime, currentDay) ==
    /\ ~(HasStatus(user) /\ Status(user).loginSuccess)
    /\ StrLess(currentTime, EMERGENCY_LOGOUT_START)
    /\ \/ isWithinTimeWindow(currentTime, user.loginTime, TIME_WINDOW_MINUTES)
       \/ /\ isAfterScheduledTime(currentTime, user.loginTime)
          /\ (IF HasStatus(user) THEN Status(user).loginAttempts ELSE 0)
                < MAX_RETRY_ATTEMPTS

\* a logout rule that stops pursuing the logout after the attempt limit
needsLogoutCapped(user, currentTime, currentDay) ==
    /\ ~(HasStatus(user) /\ Status(user).logoutSuccess)
    /\ \/ isWithinTimeWindow(currentTime, user.logoutTime, TIME_WINDOW_MINUTES)
       \/ /\ HasStatus(user) /\ Status(user).loginSuccess
          /\ isAfterScheduledTime(currentTime, user.logoutTime)
          /\ Status(user).logoutAttempts < MAX_RETRY_ATTEMPTS
       \/ isBetweenTimes(currentTime, EMERGENCY_LOGOUT_START, EMERGENCY_LOGOUT_END)

needsLogin(user, currentTime, currentDay) ==
    /\ ~(HasStatus(user) /\ Status(user).loginSuccess)
    /\ StrLess(currentTime, EMERGENCY_LOGOUT_START)
    /\ \/ isWithinTimeWindow(currentTime, user.loginTime, TIME_WINDOW_MINUTES)
       \/ /\ isAfterScheduledTime(currentTime, user.loginTime)
          /\ isWithinHoursAfter(currentTime, user.loginTime, EXTENDED_RETRY_HOURS)
          /\ (IF HasStatus(user) THEN Status(user).loginAttempts ELSE 0)
                < MAX_RETRY_ATTEMPTS
       \/ /\ isAfterScheduledTime(currentTime, user.loginTime)
          /\ ~isWithinHoursAfter(currentTime, user.loginTime, EXTENDED_RETRY_HOURS)

needsLogout(user, currentTime, currentDay) ==
    /\ ~(HasStatus(user) /\ Status(user).logoutSuccess)
    /\ \/ isWithinTimeWindow(currentTime, user.logoutTime, TIME_WINDOW_MINUTES)
       \/ /\ HasStatus(user) /\ Status(user).loginSuccess
          /\ isAfterScheduledTime(currentTime, user.logoutTime)
       \/ isBetweenTimes(currentTime, EMERGENCY_LOGOUT_START, EMERGENCY_LOGOUT_END)

\* the entries of a loop that does not look at the weekdays
EntriesOfAnyDay(user, currentTime, currentDay) ==
    (IF needsLogin(user, currentTime, currentDay)
     THEN <<[user |-> user, action |-> "login"]>> ELSE <<>>)
    \o
    (IF needsLogout(user, currentTime, currentDay)
     THEN <<[user |-> user, action |-> "logout"]>> ELSE <<>>)

\* the entries one user contributes, in the order they are pushed
EntriesOf(user, currentTime, currentDay) ==
    IF currentDay \notin user.weekdays THEN <<>>
    ELSE (IF needsLogin(user, currentTime, currentDay)
          THEN <<[user |-> user, action |-> "login"]>> ELSE <<>>)
         \o
         (IF needsLogout(user, currentTime, currentDay)
          THEN <<[user |-> user, action |-> "logout"]>> ELSE <<>>)

RECURSIVE EligibleOf(_, _, _)
\* the loop over the (reset) users that fills eligibleUsers
EligibleOf(arr, currentTime, currentDay) ==
    IF arr = <<>> THEN <<>>
    ELSE EntriesOf(Head(arr), currentTime, currentDay)
         \o EligibleOf(Tail(arr), currentTime, currentDay)

\* users.map(user => resetUserStatusIfNeeded(user, currentDate))
ResetAll(arr, currentDate, draws) ==
    [i \in 1..Len(arr) |-> resetUserStatusIfNeeded(arr[i], currentDate, draws[i])]

ActionFilter(entries, action) ==
    SelectSeq(entries, LAMBDA eu : eu.action = action)

\* a queue processed in the order getEligibleUsers returns it
QueueOrderAsReturned(entries) == entries

\* processAttendanceQueue: loginUsers followed by logoutUsers
QueueOrder(entries) ==
    ActionFilter(entries, "login") \o ActionFilter(entries, "logout")

-----------------------------------------------------------------------------
(* Handlers.  A cron callback or a trigger request that finds the lock     *)
(* taken returns at once and keeps no state, so one handler per trigger    *)
(* path carries the cycle that path started; a tick or request that        *)
(* arrives meanwhile is a further step of the same path.                   *)

CycleHandlers == {"cron", "manual"}
SyncHandlers == {"sync1", "sync2"}
Handlers == CycleHandlers \cup SyncHandlers

\* minutes of the day at which the wall clock is observed
ClockTimes == {540, 1083}

WorkDays == {1, 2, 3, 4, 5}

NoCtx == [currentTime |-> NoTime, currentDay |-> 0, currentDate |-> 0]

NoRes == [password |-> Undefined, log_in |-> FALSE, log_out |-> FALSE,
          actualTime |-> Undefined, lastError |-> Undefined,
          logError |-> Undefined]

NoReq == [id |-> Undefined, password |-> "", loginTime |-> NoTime,
          logoutTime |-> NoTime, weekdays |-> {}]

\* no time utility has been called directly
NoCall == [fn |-> Undefined]

\* the request bodies the sync endpoint is driven with (all pass
\* validation): for the user on file, and for a user not on file
UpdateRequests ==
    { [id |-> "u1", password |-> "", loginTime |-> <<10, 0>>,
       logoutTime |-> <<18, 0>>, weekdays |-> WorkDays] }

CreateRequests ==
    { [id |-> "u2", password |-> "pw", loginTime |-> <<9, 0>>,
       logoutTime |-> <<18, 0>>, weekdays |-> {2}] }

InitialUser ==
    [id |-> "u1", password |-> encrypt("pw", 1), loginTime |-> <<9, 0>>,
     logoutTime |-> <<18, 0>>, weekdays |-> WorkDays, todayStatus |-> <<>>]

\* getCurrentExecutionContext
getCurrentExecutionContext(date, minute) ==
    [currentTime |-> formatTime(minute),
     currentDay |-> getCurrentDayOfWeek(date),
     currentDate |-> date]

Init ==
    /\ executionLock = Unlocked
    /\ today = 1
    /\ now = 540
    /\ users = <<InitialUser>>
    /\ logs = <<>>
    /\ pc = [h \in Handlers |-> "idle"]
    /\ answer = <<>>
    /\ ctx = [h \in CycleHandlers |-> NoCtx]
    /\ held = [h \in Handlers |-> <<>>]
    /\ eligible = [h \in CycleHandlers |-> <<>>]
    /\ idx = [h \in CycleHandlers |-> 0]
    /\ attempt = [h \in CycleHandlers |-> 0]
    /\ res = [h \in CycleHandlers |-> NoRes]
    /\ req = [h \in SyncHandlers |-> NoReq]
    /\ cycles = 0
    /\ syncs = 0
    /\ faults = 0
    /\ lockTrace = <<>>
    /\ timeCall = NoCall

-----------------------------------------------------------------------------
(* The wall clock.  new Date() never goes back: a reading is the last    *)
(* one or a later one, on the same date or on a later date.                *)

ReadingsIn(times) ==
    {c \in (today..MaxDate) \X times : c[1] > today \/ c[2] >= now}

Readings == ReadingsIn(ClockTimes)

\* new Date() gives the reading c
ReadClock(c) ==
    /\ today' = c[1]
    /\ now' = c[2]

FirstClockTime == CHOOSE t \in ClockTimes : \A o \in ClockTimes : t <= o

\* getCurrentDate(): only the date is read; on a later date the minute of
\* the reading is at least the first one of that date
ReadDate(d) ==
    /\ d \in today..MaxDate
    /\ today' = d
    /\ now' = IF d = today THEN now ELSE FirstClockTime

-----------------------------------------------------------------------------
(* Scheduler tick and manual trigger *)

\* the synchronous start of processAttendanceQueue, after the lock is taken
StartCycle(h) ==
    /\ pc[h] = "idle"
    /\ cycles < MaxCycles
    /\ \E c \in Readings :
          /\ ReadClock(c)
          /\ executionLock' = acquireLockState(executionLock, h, c)
          /\ ctx' = [ctx EXCEPT ![h] = getCurrentExecutionContext(c[1], c[2])]
    /\ pc' = [pc EXCEPT ![h] = "read"]
    /\ cycles' = cycles + 1

\* a tick that starts its cycle without asking for the lock
CronTickUnguarded ==
    /\ StartCycle("cron")
    /\ answer' = <<"cron", "started">>
    /\ UNCHANGED <<users, logs, held, eligible, idx, attempt, res,
                   req, syncs, faults, lockTrace, timeCall>>

\* a trigger request that starts its cycle without asking for the lock
ManualTriggerUnguarded ==
    /\ StartCycle("manual")
    /\ answer' = <<"manual", "202">>
    /\ UNCHANGED <<users, logs, held, eligible, idx, attempt, res,
                   req, syncs, faults, lockTrace, timeCall>>

\* startScheduler: the callback node-cron runs at every tick
CronTick ==
    /\ IF ~acquireLock(executionLock, "cron")
       THEN /\ answer' = <<"cron", "skipped">>
            /\ UNCHANGED <<executionLock, today, now, ctx, pc, cycles>>
       ELSE /\ StartCycle("cron")
            /\ answer' = <<"cron", "started">>
    /\ UNCHANGED <<users, logs, held, eligible, idx, attempt, res,
                   req, syncs, faults, lockTrace, timeCall>>

\* manualTriggerController, up to its first await
ManualTrigger ==
    /\ IF isLocked(executionLock)
       THEN /\ answer' = <<"manual", "409">>
            /\ UNCHANGED <<executionLock, today, now, ctx, pc, cycles>>
       ELSE IF ~acquireLock(executionLock, "manual")
       THEN /\ answer' = <<"manual", "409">>
            /\ UNCHANGED <<executionLock, today, now, ctx, pc, cycles>>
       ELSE /\ StartCycle("manual")
            /\ answer' = <<"manual", "202">>
    /\ UNCHANGED <<users, logs, held, eligible, idx, attempt, res,
                   req, syncs, faults, lockTrace, timeCall>>

\* the finally block of either trigger path
Release(h) ==
    /\ h \in CycleHandlers
    /\ pc[h] = "release"
    /\ executionLock' = releaseLock(executionLock)
    /\ pc' = [pc EXCEPT ![h] = "idle"]
    /\ ctx' = [ctx EXCEPT ![h] = NoCtx]
    /\ UNCHANGED <<today, now, users, logs, answer, held, eligible, idx,
                   attempt, res, req, cycles, syncs, faults, lockTrace, timeCall>>

-----------------------------------------------------------------------------
(* Queue processor, eligibility engine and action executor *)

Entry(h) == eligible[h][idx[h]]

\* a loop that leaves out the entry that is next
ContinueSkipping(h, entries, i) ==
    /\ eligible' = [eligible EXCEPT ![h] =
                       IF i + 1 > Len(entries) THEN <<>> ELSE entries]
    /\ idx' = [idx EXCEPT ![h] = IF i + 1 > Len(entries) THEN 0 ELSE i + 1]
    /\ attempt' = [attempt EXCEPT ![h] = 0]
    /\ res' = [res EXCEPT ![h] = NoRes]
    /\ pc' = [pc EXCEPT ![h] = IF i + 1 > Len(entries) THEN "release"
                               ELSE "find"]

\* what follows the eligibility computation or the log of one entry
Continue(h, entries, i) ==
    /\ eligible' = [eligible EXCEPT ![h] =
                       IF i > Len(entries) THEN <<>> ELSE entries]
    /\ idx' = [idx EXCEPT ![h] = IF i > Len(entries) THEN 0 ELSE i]
    /\ attempt' = [attempt EXCEPT ![h] = 0]
    /\ res' = [res EXCEPT ![h] = NoRes]
    /\ pc' = [pc EXCEPT ![h] = IF i > Len(entries) THEN "release" ELSE "find"]

\* an error of getEligibleUsers that the queue processor does not catch:
\* the loops run on the list of the cycle before
AbortIntoLoop(h) ==
    /\ pc' = [pc EXCEPT ![h] = "log"]
    /\ held' = [held EXCEPT ![h] = <<>>]
    /\ UNCHANGED <<users, eligible, idx, attempt, res>>

\* the catch block of processAttendanceQueue: the cycle is abandoned
Abort(h) ==
    /\ pc' = [pc EXCEPT ![h] = "release"]
    /\ held' = [held EXCEPT ![h] = <<>>]
    /\ UNCHANGED <<users, eligible, idx, attempt, res>>

\* getEligibleUsers: readUsersFromFile and the lazy reset of the array
GetEligibleRead(h) ==
    /\ h \in CycleHandlers
    /\ pc[h] = "read"
    /\ \E draws \in [1..Len(users) -> DrawPairs] :
          LET reset == ResetAll(users, ctx[h].currentDate, draws)
              usersNeedUpdate ==
                  \E i \in 1..Len(users) :
                      shouldResetStatus(ctx[h].currentDate, StatusDate(users[i]))
          IN  IF usersNeedUpdate
              THEN /\ held' = [held EXCEPT ![h] = reset]
                   /\ pc' = [pc EXCEPT ![h] = "resetWrite"]
                   /\ UNCHANGED <<eligible, idx, attempt, res>>
              ELSE /\ Continue(h, QueueOrder(EligibleOf(reset,
                          ctx[h].currentTime, ctx[h].currentDay)), 1)
                   /\ UNCHANGED held
    /\ UNCHANGED <<executionLock, today, now, users, logs, answer, ctx, req,
                   cycles, syncs, faults, lockTrace, timeCall>>

\* getEligibleUsers: writeUsersToFile of the reset array, then the loop
GetEligibleWrite(h) ==
    /\ h \in CycleHandlers
    /\ pc[h] = "resetWrite"
    /\ users' = held[h]
    /\ held' = [held EXCEPT ![h] = <<>>]
    /\ Continue(h, QueueOrder(EligibleOf(held[h],
           ctx[h].currentTime, ctx[h].currentDay)), 1)
    /\ UNCHANGED <<executionLock, today, now, logs, answer, ctx, req, cycles,
                   syncs, faults, lockTrace, timeCall>>

\* getEligibleUsers: readUsersFromFile or writeUsersToFile throws; the
\* catch block of processAttendanceQueue takes the error
GetEligibleFails(h) ==
    /\ h \in CycleHandlers
    /\ pc[h] \in {"read", "resetWrite"}
    /\ faults < MaxFaults
    /\ faults' = faults + 1
    /\ Abort(h)
    /\ UNCHANGED <<executionLock, today, now, logs, answer, ctx, req, cycles,
                   syncs, lockTrace, timeCall>>

\* a findUserWithDecryptedPassword that hands over whatever decrypt gives
FindUserUnchecked(h) ==
    /\ h \in CycleHandlers
    /\ pc[h] = "find"
    /\ LET i == FindIndex(users, Entry(h).user.id) IN
       IF i = 0
       THEN /\ res' = [res EXCEPT ![h].logError =
                          "User not found or password decryption failed"]
            /\ pc' = [pc EXCEPT ![h] = "log"]
            /\ UNCHANGED attempt
       ELSE /\ res' = [res EXCEPT ![h].password = decrypt(users[i].password)]
            /\ attempt' = [attempt EXCEPT ![h] = 1]
            /\ pc' = [pc EXCEPT ![h] = "health"]
    /\ UNCHANGED <<executionLock, today, now, users, logs, answer, ctx, held,
                   eligible, idx, req, cycles, syncs, faults, lockTrace, timeCall>>

\* findUserWithDecryptedPassword, and the entry into executeAttendanceAction
FindUser(h) ==
    /\ h \in CycleHandlers
    /\ pc[h] = "find"
    /\ LET i == FindIndex(users, Entry(h).user.id) IN
       IF i = 0
       THEN /\ res' = [res EXCEPT ![h].logError =
                          "User not found or password decryption failed"]
            /\ pc' = [pc EXCEPT ![h] = "log"]
            /\ UNCHANGED attempt
       ELSE IF decrypt(users[i].password) = Undefined
       THEN /\ res' = [res EXCEPT ![h].logError = "Failed to find user"]
            /\ pc' = [pc EXCEPT ![h] = "log"]
            /\ UNCHANGED attempt
       ELSE /\ res' = [res EXCEPT ![h].password = decrypt(users[i].password)]
            /\ attempt' = [attempt EXCEPT ![h] = 1]
            /\ pc' = [pc EXCEPT ![h] = "health"]
    /\ UNCHANGED <<executionLock, today, now, users, logs, answer, ctx, held,
                   eligible, idx, req, cycles, syncs, faults, lockTrace, timeCall>>

\* findUserWithDecryptedPassword: readUsersFromFile throws; the error is
\* wrapped and reaches the catch block of the entry
FindUserFails(h) ==
    /\ h \in CycleHandlers
    /\ pc[h] = "find"
    /\ faults < MaxFaults
    /\ faults' = faults + 1
    /\ res' = [res EXCEPT ![h].logError = "Failed to find user"]
    /\ pc' = [pc EXCEPT ![h] = "log"]
    /\ UNCHANGED <<executionLock, today, now, users, logs, answer, ctx, held,
                   eligible, idx, attempt, req, cycles, syncs, lockTrace, timeCall>>

\* executeAttendanceAction: the end of one failed iteration of the retry loop
AfterFailure(h, lastResult, lastError) ==
    /\ res' = [res EXCEPT ![h].log_in = lastResult.log_in,
                          ![h].log_out = lastResult.log_out,
                          ![h].actualTime = lastResult.actualTime,
                          ![h].lastError = lastError]
    /\ pc' = [pc EXCEPT ![h] = IF attempt[h] < MAX_RETRY_ATTEMPTS
                               THEN "delay" ELSE "failRead"]
    /\ UNCHANGED attempt

\* a retry loop that does not count its iterations
RetryDelayWithoutCount(h) ==
    /\ h \in CycleHandlers
    /\ pc[h] = "delay"
    /\ pc' = [pc EXCEPT ![h] = "health"]
    /\ UNCHANGED <<executionLock, today, now, users, logs, answer, ctx, held,
                   eligible, idx, attempt, res, req, cycles, syncs, faults,
                   lockTrace, timeCall>>

\* executeAttendanceAction: delay(RETRY_DELAY_MS) is over, the next
\* iteration of the retry loop starts
RetryDelay(h) ==
    /\ h \in CycleHandlers
    /\ pc[h] = "delay"
    /\ attempt' = [attempt EXCEPT ![h] = attempt[h] + 1]
    /\ pc' = [pc EXCEPT ![h] = "health"]
    /\ UNCHANGED <<executionLock, today, now, users, logs, answer, ctx, held,
                   eligible, idx, res, req, cycles, syncs, faults, lockTrace,
                   timeCall>>

FailedResult == [log_in |-> FALSE, log_out |-> FALSE, actualTime |-> Undefined]

FailedMessage(action) ==
    IF action = "login" THEN "login failed - no error details"
    ELSE "logout failed - no error details"

\* performAttendanceAction: provider.healthCheck()
HealthCheck(h) ==
    /\ h \in CycleHandlers
    /\ pc[h] = "health"
    /\ \/ /\ pc' = [pc EXCEPT ![h] = "call"]
          /\ UNCHANGED <<attempt, res>>
       \/ AfterFailure(h, FailedResult, FailedMessage(Entry(h).action))
    /\ UNCHANGED <<executionLock, today, now, users, logs, answer, ctx, held,
                   eligible, idx, req, cycles, syncs, faults, lockTrace, timeCall>>

\* the results provider.login / provider.logout may return for one call
ProviderResults == {[success |-> TRUE, actualTime |-> "9:02 AM"],
                    [success |-> TRUE, actualTime |-> Undefined],
                    [success |-> FALSE, actualTime |-> Undefined]}

\* performAttendanceAction: provider.login or provider.logout
ProviderCall(h) ==
    /\ h \in CycleHandlers
    /\ pc[h] = "call"
    /\ \E r \in ProviderResults :
          LET lastResult ==
                [log_in |-> Entry(h).action = "login" /\ r.success,
                 log_out |-> Entry(h).action = "logout" /\ r.success,
                 actualTime |-> r.actualTime]
          IN  IF r.success
              THEN /\ res' = [res EXCEPT ![h].log_in = lastResult.log_in,
                                         ![h].log_out = lastResult.log_out,
                                         ![h].actualTime = lastResult.actualTime]
                   /\ pc' = [pc EXCEPT ![h] = "okRead"]
                   /\ UNCHANGED attempt
              ELSE AfterFailure(h, lastResult, FailedMessage(Entry(h).action))
    /\ UNCHANGED <<executionLock, today, now, users, logs, answer, ctx, held,
                   eligible, idx, req, cycles, syncs, faults, lockTrace, timeCall>>

\* the array updateUserStatus writes back for the entry of h
StatusUpdate(h, success, error, actualTime, currentDate, draws) ==
    LET i == FindIndex(users, Entry(h).user.id)
    IN  [users EXCEPT ![i] =
            updateActionStatus(users[i], Entry(h).action, success, error,
                               actualTime, currentDate, draws)]

KeptResult(h) == [log_in |-> res[h].log_in, log_out |-> res[h].log_out,
                  actualTime |-> res[h].actualTime]

\* updateUserStatus(user.id, action, true, undefined, actualTime): the read;
\* it runs inside the try of the retry loop, whose catch takes its errors
StatusOkRead(h) ==
    /\ h \in CycleHandlers
    /\ pc[h] = "okRead"
    /\ IF FindIndex(users, Entry(h).user.id) = 0
       THEN /\ AfterFailure(h, KeptResult(h), "Failed to update user status")
            /\ UNCHANGED <<held, today, now>>
       ELSE /\ \E draws \in DrawPairs, d \in today..MaxDate :
                  /\ ReadDate(d)
                  /\ held' = [held EXCEPT ![h] =
                        StatusUpdate(h, TRUE, Undefined, res[h].actualTime,
                                     d, draws)]
            /\ pc' = [pc EXCEPT ![h] = "okWrite"]
            /\ UNCHANGED <<attempt, res>>
    /\ UNCHANGED <<executionLock, users, logs, answer, ctx,
                   eligible, idx, req, cycles, syncs, faults, lockTrace, timeCall>>

\* updateUserStatus on success: writeUsersToFile, then return lastResult
StatusOkWrite(h) ==
    /\ h \in CycleHandlers
    /\ pc[h] = "okWrite"
    /\ users' = held[h]
    /\ pc' = [pc EXCEPT ![h] = "log"]
    /\ held' = [held EXCEPT ![h] = <<>>]
    /\ UNCHANGED <<executionLock, today, now, logs, answer, ctx, eligible,
                   idx, attempt, res, req, cycles, syncs, faults, lockTrace, timeCall>>

\* updateUserStatus on success: readUsersFromFile or writeUsersToFile
\* throws; the catch of the retry loop takes the wrapped error
StatusOkFails(h) ==
    /\ h \in CycleHandlers
    /\ pc[h] \in {"okRead", "okWrite"}
    /\ faults < MaxFaults
    /\ faults' = faults + 1
    /\ AfterFailure(h, KeptResult(h), "Failed to update user status")
    /\ held' = [held EXCEPT ![h] = <<>>]
    /\ UNCHANGED <<executionLock, today, now, users, logs, answer, ctx,
                   eligible, idx, req, cycles, syncs, lockTrace, timeCall>>

\* updateUserStatus(user.id, action, false, lastError) after the loop: the
\* read; its errors leave executeAttendanceAction and reach the entry's catch
StatusFailRead(h) ==
    /\ h \in CycleHandlers
    /\ pc[h] = "failRead"
    /\ IF FindIndex(users, Entry(h).user.id) = 0
       THEN /\ res' = [res EXCEPT ![h].logError = "Failed to update user status"]
            /\ pc' = [pc EXCEPT ![h] = "log"]
            /\ UNCHANGED <<held, today, now>>
       ELSE /\ \E draws \in DrawPairs, d \in today..MaxDate :
                  /\ ReadDate(d)
                  /\ held' = [held EXCEPT ![h] =
                        StatusUpdate(h, FALSE, res[h].lastError, Undefined,
                                     d, draws)]
            /\ pc' = [pc EXCEPT ![h] = "failWrite"]
            /\ UNCHANGED res
    /\ UNCHANGED <<executionLock, users, logs, answer, ctx,
                   eligible, idx, attempt, req, cycles, syncs, faults, lockTrace, timeCall>>

\* updateUserStatus after the loop: writeUsersToFile, then return lastResult
StatusFailWrite(h) ==
    /\ h \in CycleHandlers
    /\ pc[h] = "failWrite"
    /\ users' = held[h]
    /\ pc' = [pc EXCEPT ![h] = "log"]
    /\ held' = [held EXCEPT ![h] = <<>>]
    /\ UNCHANGED <<executionLock, today, now, logs, answer, ctx, eligible,
                   idx, attempt, res, req, cycles, syncs, faults, lockTrace, timeCall>>

\* updateUserStatus after the loop: readUsersFromFile or writeUsersToFile
\* throws; the wrapped error reaches the catch block of the entry
StatusFailFails(h) ==
    /\ h \in CycleHandlers
    /\ pc[h] \in {"failRead", "failWrite"}
    /\ faults < MaxFaults
    /\ faults' = faults + 1
    /\ res' = [res EXCEPT ![h].logError = "Failed to update user status"]
    /\ pc' = [pc EXCEPT ![h] = "log"]
    /\ held' = [held EXCEPT ![h] = <<>>]
    /\ UNCHANGED <<executionLock, today, now, users, logs, answer, ctx,
                   eligible, idx, attempt, req, cycles, syncs, lockTrace, timeCall>>

\* the AttendanceLog processAttendanceQueue hands to logAttendanceExecution
\* (the executionTime stamp added at append time is left out)
LogEntry(h) ==
    LET action == Entry(h).action
        success == IF res[h].logError # Undefined THEN FALSE
                   ELSE IF action = "login" THEN res[h].log_in
                   ELSE res[h].log_out
    IN  [userId |-> Entry(h).user.id,
         action |-> action,
         scheduledTime |-> IF action = "login" THEN Entry(h).user.loginTime
                           ELSE Entry(h).user.logoutTime,
         success |-> success,
         error |-> IF res[h].logError # Undefined THEN res[h].logError
                   ELSE IF success THEN Undefined
                   ELSE IF action = "login" THEN "Login action failed"
                   ELSE "Logout action failed"]

\* logAttendanceExecution: appendLog; then the next entry of the loop, or
\* the end of processAttendanceQueue
LogExecution(h) ==
    /\ h \in CycleHandlers
    /\ pc[h] = "log"
    /\ logs' = Append(logs, LogEntry(h))
    /\ Continue(h, eligible[h], idx[h] + 1)
    /\ UNCHANGED <<executionLock, today, now, users, answer, ctx, held, req,
                   cycles, syncs, faults, lockTrace, timeCall>>

\* a logAttendanceExecution that lets the error of appendLog out: it
\* reaches the catch block of processAttendanceQueue
LogExecutionFailsPropagating(h) ==
    /\ h \in CycleHandlers
    /\ pc[h] = "log"
    /\ faults < MaxFaults
    /\ faults' = faults + 1
    /\ Continue(h, <<>>, 1)
    /\ UNCHANGED <<executionLock, today, now, users, logs, answer, ctx, held,
                   req, cycles, syncs, lockTrace, timeCall>>

\* logAttendanceExecution: appendLog throws; the error is swallowed and the
\* loop goes on
LogExecutionFails(h) ==
    /\ h \in CycleHandlers
    /\ pc[h] = "log"
    /\ faults < MaxFaults
    /\ faults' = faults + 1
    /\ Continue(h, eligible[h], idx[h] + 1)
    /\ UNCHANGED <<executionLock, today, now, users, logs, answer, ctx, held,
                   req, cycles, syncs, lockTrace, timeCall>>

-----------------------------------------------------------------------------
(* User sync service *)

\* crypto.randomBytes(16) of the encrypt call a sync request makes: the
\* initial record holds iv 1, the n-th request draws iv n + 1
FreshIv == syncs + 1

\* updateUser: the record that replaces users[userIndex]
UpdatedUser(original, userData, iv) ==
    LET isPasswordUpdate == Truthy(userData.password)
        encryptedPassword == IF isPasswordUpdate
                             THEN encrypt(userData.password, iv)
                             ELSE original.password
        scheduleChanged == \/ userData.loginTime # original.loginTime
                           \/ userData.logoutTime # original.logoutTime
                           \/ userData.weekdays # original.weekdays
    IN  [id |-> userData.id,
         password |-> encryptedPassword,
         loginTime |-> userData.loginTime,
         logoutTime |-> userData.logoutTime,
         weekdays |-> userData.weekdays,
         todayStatus |->
            IF scheduleChanged /\ HasStatus(original)
            THEN <<[Status(original) EXCEPT !.randomizedLoginTime = NoTime,
                                            !.randomizedLogoutTime = NoTime]>>
            ELSE original.todayStatus]

\* createUser: the record pushed on the array
NewUser(userData, iv) ==
    [id |-> userData.id,
     password |-> encrypt(userData.password, iv),
     loginTime |-> userData.loginTime,
     logoutTime |-> userData.logoutTime,
     weekdays |-> userData.weekdays,
     todayStatus |-> <<>>]

\* a syncUser that takes every id for a new one
SyncAcceptAsNew(s, requests, limit) ==
    /\ pc[s] = "idle"
    /\ syncs < limit
    /\ \E userData \in requests :
          /\ req' = [req EXCEPT ![s] = userData]
          /\ pc' = [pc EXCEPT ![s] = "createRead"]
    /\ syncs' = syncs + 1
    /\ UNCHANGED <<executionLock, today, now, users, logs, answer, ctx, held,
                   eligible, idx, attempt, res, cycles, faults, lockTrace,
                   timeCall>>

\* syncUser: findUserById decides between updateUser and createUser (a
\* request is served by the first free handler)
SyncAccept(s, requests, limit) ==
    /\ s \in SyncHandlers
    /\ pc[s] = "idle"
    /\ s = "sync2" => pc["sync1"] # "idle"
    /\ syncs < limit
    /\ \E userData \in requests :
          /\ req' = [req EXCEPT ![s] = userData]
          /\ pc' = [pc EXCEPT ![s] =
                IF FindIndex(users, userData.id) # 0 THEN "updateRead"
                ELSE "createRead"]
    /\ syncs' = syncs + 1
    /\ UNCHANGED <<executionLock, today, now, users, logs, answer, ctx, held,
                   eligible, idx, attempt, res, cycles, faults, lockTrace, timeCall>>

SyncFind(s, requests) == SyncAccept(s, requests, MaxSyncs)

\* updateUser: readUsersFromFile, findIndex and the new array
SyncUpdateRead(s) ==
    /\ s \in SyncHandlers
    /\ pc[s] = "updateRead"
    /\ LET userIndex == FindIndex(users, req[s].id) IN
       IF userIndex = 0
       THEN /\ pc' = [pc EXCEPT ![s] = "idle"]
            /\ answer' = <<s, "404">>
            /\ req' = [req EXCEPT ![s] = NoReq]
            /\ UNCHANGED held
       ELSE /\ held' = [held EXCEPT ![s] =
                    [users EXCEPT ![userIndex] =
                        UpdatedUser(users[userIndex], req[s], FreshIv)]]
            /\ pc' = [pc EXCEPT ![s] = "updateWrite"]
            /\ UNCHANGED <<answer, req>>
    /\ UNCHANGED <<executionLock, today, now, users, logs, ctx, eligible, idx,
                   attempt, res, cycles, syncs, faults, lockTrace, timeCall>>

\* updateUser: writeUsersToFile, and the controller's answer
SyncUpdateWrite(s) ==
    /\ s \in SyncHandlers
    /\ pc[s] = "updateWrite"
    /\ users' = held[s]
    /\ held' = [held EXCEPT ![s] = <<>>]
    /\ pc' = [pc EXCEPT ![s] = "idle"]
    /\ answer' = <<s, "200">>
    /\ req' = [req EXCEPT ![s] = NoReq]
    /\ UNCHANGED <<executionLock, today, now, logs, ctx, eligible, idx,
                   attempt, res, cycles, syncs, faults, lockTrace, timeCall>>

\* createUser: readUsersFromFile, the existence check and the push
SyncCreateRead(s) ==
    /\ s \in SyncHandlers
    /\ pc[s] = "createRead"
    /\ IF FindIndex(users, req[s].id) # 0
       THEN /\ pc' = [pc EXCEPT ![s] = "idle"]
            /\ answer' = <<s, "409">>
            /\ req' = [req EXCEPT ![s] = NoReq]
            /\ UNCHANGED held
       ELSE /\ held' = [held EXCEPT ![s] =
                    Append(users, NewUser(req[s], FreshIv))]
            /\ pc' = [pc EXCEPT ![s] = "createWrite"]
            /\ UNCHANGED <<answer, req>>
    /\ UNCHANGED <<executionLock, today, now, users, logs, ctx, eligible, idx,
                   attempt, res, cycles, syncs, faults, lockTrace, timeCall>>

\* createUser: writeUsersToFile, and the controller's answer
SyncCreateWrite(s) ==
    /\ s \in SyncHandlers
    /\ pc[s] = "createWrite"
    /\ users' = held[s]
    /\ held' = [held EXCEPT ![s] = <<>>]
    /\ pc' = [pc EXCEPT ![s] = "idle"]
    /\ answer' = <<s, "201">>
    /\ req' = [req EXCEPT ![s] = NoReq]
    /\ UNCHANGED <<executionLock, today, now, logs, ctx, eligible, idx,
                   attempt, res, cycles, syncs, faults, lockTrace, timeCall>>

-----------------------------------------------------------------------------
(* Deletion of a user *)

\* Array.prototype.splice(i, 1)
RemoveAt(arr, i) == SubSeq(arr, 1, i - 1) \o SubSeq(arr, i + 1, Len(arr))

\* deleteUserController and deleteUser: readUsersFromFile, findIndex and
\* the splice (a request is served by the first free handler)
DeleteRead(s, ids, limit) ==
    /\ s \in SyncHandlers
    /\ pc[s] = "idle"
    /\ s = "sync2" => pc["sync1"] # "idle"
    /\ syncs < limit
    /\ syncs' = syncs + 1
    /\ \E id \in ids :
          LET userIndex == FindIndex(users, id) IN
          IF userIndex = 0
          THEN /\ answer' = <<s, "404">>
               /\ UNCHANGED <<pc, held, req>>
          ELSE /\ held' = [held EXCEPT ![s] = RemoveAt(users, userIndex)]
               /\ req' = [req EXCEPT ![s] = [NoReq EXCEPT !.id = id]]
               /\ pc' = [pc EXCEPT ![s] = "deleteWrite"]
               /\ UNCHANGED answer
    /\ UNCHANGED <<executionLock, today, now, users, logs, ctx, eligible, idx,
                   attempt, res, cycles, faults, lockTrace, timeCall>>

\* deleteUser: writeUsersToFile, and the controller's answer
DeleteWrite(s) ==
    /\ s \in SyncHandlers
    /\ pc[s] = "deleteWrite"
    /\ users' = held[s]
    /\ held' = [held EXCEPT ![s] = <<>>]
    /\ pc' = [pc EXCEPT ![s] = "idle"]
    /\ answer' = <<s, "200">>
    /\ req' = [req EXCEPT ![s] = NoReq]
    /\ UNCHANGED <<executionLock, today, now, logs, ctx, eligible, idx,
                   attempt, res, cycles, syncs, faults, lockTrace, timeCall>>

-----------------------------------------------------------------------------
(* The lock API called directly, as a unit test calls it: every call is    *)
(* recorded with what it returned and with getLockStatus() after it.       *)

LockCall(op, source, returned, at, lock) ==
    [op |-> op, source |-> source, returned |-> returned, at |-> at,
     status |-> getLockStatus(lock)]

\* acquireLock(source), called at the clock reading c
LockAcquire(source) ==
    /\ Len(lockTrace) < MaxTrace
    /\ \E c \in Readings :
          /\ ReadClock(c)
          /\ executionLock' = acquireLockState(executionLock, source, c)
          /\ lockTrace' = Append(lockTrace,
                LockCall("acquire", source, acquireLock(executionLock, source),
                         c, acquireLockState(executionLock, source, c)))
    /\ UNCHANGED <<users, logs, pc, answer, ctx, held, eligible, idx, attempt,
                   res, req, cycles, syncs, faults, timeCall>>

\* releaseLock(), which returns nothing
LockRelease ==
    /\ Len(lockTrace) < MaxTrace
    /\ executionLock' = releaseLock(executionLock)
    /\ lockTrace' = Append(lockTrace,
          LockCall("release", Undefined, Undefined, <<today, now>>,
                   releaseLock(executionLock)))
    /\ UNCHANGED <<today, now, users, logs, pc, answer, ctx, held, eligible,
                   idx, attempt, res, req, cycles, syncs, faults, timeCall>>

LockNext ==
    \/ \E source \in LockSources : LockAcquire(source)
    \/ LockRelease

LockSpec == Init /\ [][LockNext]_vars

-----------------------------------------------------------------------------
(* getEligibleUsers called on its own, on a file holding one user whose    *)
(* status of the first date is any the tracker can have written.           *)

\* minutes of the day: just after midnight, before the login time, at the
\* edges of its window, at the edges of the two hours after it, in the
\* logout window and after it, at the edges of the emergency window
EligibilityTimes ==
    {1, 480, 533, 534, 538, 540, 546, 547, 550, 551, 660, 661, 720,
     1083, 1086, 1087, 1300, 1379, 1380, 1410, 1439}

\* schedules: the usual one, a login late in the evening or just before
\* midnight, a logout just after midnight
EligibilityLoginTimes == {<<9, 0>>, <<21, 30>>, <<23, 58>>}

EligibilityLogoutTimes == {<<18, 0>>, <<0, 2>>}

FirstDayStatuses ==
    {st \in [date : {1},
             loginAttempts : {0, 1, MAX_RETRY_ATTEMPTS},
             loginSuccess : BOOLEAN,
             randomizedLoginTime : {<<8, 54>>},
             actualInTime : {Undefined},
             logoutAttempts : {0, 1, MAX_RETRY_ATTEMPTS},
             logoutSuccess : BOOLEAN,
             randomizedLogoutTime : {<<18, 6>>},
             actualOutTime : {Undefined},
             lastError : {Undefined}] :
        /\ st.loginSuccess => st.loginAttempts >= 1
        /\ st.logoutSuccess => st.logoutAttempts >= 1}

\* a status of the first date as the tracker wrote it for this schedule
StatusFor(st, loginTime, logoutTime) ==
    [st EXCEPT
        !.randomizedLoginTime = randomizeTime(loginTime, TIME_WINDOW_MINUTES, 0),
        !.randomizedLogoutTime =
            randomizeTime(logoutTime, TIME_WINDOW_MINUTES, 2 * TIME_WINDOW_MINUTES)]

EligibilityUsers ==
    UNION {
        {[InitialUser EXCEPT !.weekdays = w, !.loginTime = lt,
                             !.logoutTime = ot, !.todayStatus = <<>>]}
        \cup
        {[InitialUser EXCEPT !.weekdays = w, !.loginTime = lt,
                             !.logoutTime = ot,
                             !.todayStatus = <<StatusFor(st, lt, ot)>>] :
            st \in FirstDayStatuses} :
        w \in {WorkDays, {2}},
        lt \in EligibilityLoginTimes,
        ot \in EligibilityLogoutTimes}

EligibilityInit ==
    /\ executionLock = Unlocked
    /\ today = 1
    /\ now = CHOOSE t \in EligibilityTimes : \A o \in EligibilityTimes : t <= o
    /\ users \in {<<u>> : u \in EligibilityUsers}
    /\ logs = <<>>
    /\ pc = [h \in Handlers |-> "idle"]
    /\ answer = <<>>
    /\ ctx = [h \in CycleHandlers |-> NoCtx]
    /\ held = [h \in Handlers |-> <<>>]
    /\ eligible = [h \in CycleHandlers |-> <<>>]
    /\ idx = [h \in CycleHandlers |-> 0]
    /\ attempt = [h \in CycleHandlers |-> 0]
    /\ res = [h \in CycleHandlers |-> NoRes]
    /\ req = [h \in SyncHandlers |-> NoReq]
    /\ cycles = 0
    /\ syncs = 0
    /\ faults = 0
    /\ lockTrace = <<>>
    /\ timeCall = NoCall

\* getEligibleUsers(context), whole: the read, the lazy reset, the write of
\* the reset array and the list returned.  held keeps the array this call
\* handed to writeUsersToFile, <<>> when the call wrote nothing.
GetEligibleUsers ==
    /\ \E c \in ReadingsIn(EligibilityTimes),
          draws \in [1..Len(users) -> DrawPairs] :
          LET context == getCurrentExecutionContext(c[1], c[2])
              reset == ResetAll(users, context.currentDate, draws)
              usersNeedUpdate ==
                  \E i \in 1..Len(users) :
                      shouldResetStatus(context.currentDate,
                                        StatusDate(users[i]))
          IN  /\ ReadClock(c)
              /\ ctx' = [ctx EXCEPT !["cron"] = context]
              /\ held' = [held EXCEPT !["cron"] =
                    IF usersNeedUpdate THEN reset ELSE <<>>]
              /\ users' = IF usersNeedUpdate THEN reset ELSE users
              /\ eligible' = [eligible EXCEPT !["cron"] =
                    EligibleOf(reset, context.currentTime, context.currentDay)]
    /\ UNCHANGED <<executionLock, logs, pc, answer, idx, attempt, res,
                   req, cycles, syncs, faults, lockTrace, timeCall>>

EligibilitySpec == EligibilityInit /\ [][GetEligibleUsers]_vars

-----------------------------------------------------------------------------
(* The whole program *)

CycleStep(h) ==
    \/ GetEligibleRead(h)
    \/ GetEligibleWrite(h)
    \/ FindUser(h)
    \/ HealthCheck(h)
    \/ ProviderCall(h)
    \/ RetryDelay(h)
    \/ StatusOkRead(h)
    \/ StatusOkWrite(h)
    \/ StatusFailRead(h)
    \/ StatusFailWrite(h)
    \/ LogExecution(h)
    \/ Release(h)

\* a store operation of the cycle throws
FaultStep(h) ==
    \/ GetEligibleFails(h)
    \/ FindUserFails(h)
    \/ StatusOkFails(h)
    \/ StatusFailFails(h)
    \/ LogExecutionFails(h)

\* a sync request for the user on file
SyncUpdate(s) ==
    \/ SyncFind(s, UpdateRequests)
    \/ SyncUpdateRead(s)
    \/ SyncUpdateWrite(s)

\* a sync request for a user not on file
SyncCreate(s) ==
    \/ SyncFind(s, CreateRequests)
    \/ SyncCreateRead(s)
    \/ SyncCreateWrite(s)

\* cycles of both trigger paths, interleaved with sync requests
Next ==
    \/ CronTick
    \/ ManualTrigger
    \/ \E h \in CycleHandlers : CycleStep(h)
    \/ \E s \in SyncHandlers : SyncUpdate(s)

Spec == Init /\ [][Next]_vars

\* cycles of both trigger paths whose store operations may throw
FaultNext ==
    \/ CronTick
    \/ ManualTrigger
    \/ \E h \in CycleHandlers : CycleStep(h)
    \/ \E h \in CycleHandlers : FaultStep(h)

FaultSpec == Init /\ [][FaultNext]_vars

\* every pending await of a cycle settles: the provider call or the store
\* operation returns or throws, and the handler goes on
FairSpec ==
    /\ FaultSpec
    /\ \A h \in CycleHandlers : WF_vars(CycleStep(h) \/ FaultStep(h))

\* a second user on file, with the same schedule
SecondUser == [InitialUser EXCEPT !.id = "u2", !.password = encrypt("pw", 2)]

QueueInit ==
    /\ executionLock = Unlocked
    /\ today = 1
    /\ now = 540
    /\ users = <<InitialUser, SecondUser>>
    /\ logs = <<>>
    /\ pc = [h \in Handlers |-> "idle"]
    /\ answer = <<>>
    /\ ctx = [h \in CycleHandlers |-> NoCtx]
    /\ held = [h \in Handlers |-> <<>>]
    /\ eligible = [h \in CycleHandlers |-> <<>>]
    /\ idx = [h \in CycleHandlers |-> 0]
    /\ attempt = [h \in CycleHandlers |-> 0]
    /\ res = [h \in CycleHandlers |-> NoRes]
    /\ req = [h \in SyncHandlers |-> NoReq]
    /\ cycles = 0
    /\ syncs = 0
    /\ faults = 0
    /\ lockTrace = <<>>
    /\ timeCall = NoCall

\* the first tick of the scheduler
FirstTick == cycles = 0 /\ CronTick

\* one cycle of the scheduler on a file of two users, with store faults
QueueNext ==
    \/ FirstTick
    \/ CycleStep("cron")
    \/ FaultStep("cron")

QueueSpec == QueueInit /\ [][QueueNext]_vars

\* the user on file with a password that decrypt rejects
CorruptUser == [InitialUser EXCEPT !.password = <<>>]

OutcomeInit ==
    /\ executionLock = Unlocked
    /\ today = 1
    /\ now = 540
    /\ users \in {<<InitialUser>>, <<CorruptUser>>}
    /\ logs = <<>>
    /\ pc = [h \in Handlers |-> "idle"]
    /\ answer = <<>>
    /\ ctx = [h \in CycleHandlers |-> NoCtx]
    /\ held = [h \in Handlers |-> <<>>]
    /\ eligible = [h \in CycleHandlers |-> <<>>]
    /\ idx = [h \in CycleHandlers |-> 0]
    /\ attempt = [h \in CycleHandlers |-> 0]
    /\ res = [h \in CycleHandlers |-> NoRes]
    /\ req = [h \in SyncHandlers |-> NoReq]
    /\ cycles = 0
    /\ syncs = 0
    /\ faults = 0
    /\ lockTrace = <<>>
    /\ timeCall = NoCall

\* one request to delete the user on file
DeleteRequest == DeleteRead("sync1", {"u1"}, 1) \/ DeleteWrite("sync1")

\* one cycle of the scheduler with every outcome an entry can have: the
\* provider's answers, a password that does not decrypt, a store fault, a
\* user deleted in the middle of the cycle
OutcomeNext ==
    \/ FirstTick
    \/ CycleStep("cron")
    \/ FaultStep("cron")
    \/ DeleteRequest

OutcomeSpec == OutcomeInit /\ [][OutcomeNext]_vars

\* the cycle of OutcomeSpec when every await of the cycle settles: the
\* pending step of the cycle is taken, with its result or with its error
FairOutcomeSpec ==
    /\ OutcomeSpec
    /\ WF_vars(CycleStep("cron") \/ FaultStep("cron"))

\* a sync request for the user on file that brings a new password and
\* leaves the schedule as it is
PasswordRequests ==
    { [id |-> "u1", password |-> "new", loginTime |-> <<9, 0>>,
       logoutTime |-> <<18, 0>>, weekdays |-> WorkDays] }

\* the one request of that kind, served while the cycle runs
PasswordSync ==
    \/ SyncAccept("sync1", PasswordRequests, 1)
    \/ SyncUpdateRead("sync1")
    \/ SyncUpdateWrite("sync1")

PasswordNext ==
    \/ FirstTick
    \/ CycleStep("cron")
    \/ PasswordSync

\* one cycle of the scheduler, interleaved with a change of password
PasswordSpec == Init /\ [][PasswordNext]_vars

\* the sync endpoint alone, serving requests of both kinds
SyncNext == \E s \in SyncHandlers : SyncUpdate(s) \/ SyncCreate(s)

SyncSpec == Init /\ [][SyncNext]_vars

\* request bodies of the sync endpoint: for the user on file, and two for
\* a user not on file
StoreRequests ==
    UpdateRequests \cup CreateRequests \cup
    { [id |-> "u2", password |-> "pw2", loginTime |-> <<8, 0>>,
       logoutTime |-> <<17, 0>>, weekdays |-> WorkDays] }

\* no request is being served
StoreIdle == \A s \in SyncHandlers : pc[s] = "idle"

\* a sync request is accepted once the request before it is answered
StoreSync(s) ==
    /\ StoreIdle
    /\ SyncAccept(s, StoreRequests, MaxRequests)

\* a delete request is accepted once the request before it is answered
StoreDelete(s) ==
    /\ StoreIdle
    /\ DeleteRead(s, {"u1", "u2"}, MaxRequests)

\* the sync and delete endpoints, serving requests one after another
StoreNext ==
    \E s \in SyncHandlers :
        \/ StoreSync(s)
        \/ SyncUpdateRead(s)
        \/ SyncUpdateWrite(s)
        \/ SyncCreateRead(s)
        \/ SyncCreateWrite(s)
        \/ StoreDelete(s)
        \/ DeleteWrite(s)

StoreSpec == Init /\ [][StoreNext]_vars

-----------------------------------------------------------------------------
(* The time utilities called on their own: one call per behaviour, with    *)
(* its arguments and its result kept in timeCall.                          *)

\* every minute of the day
DayMinutes == 0..1439

\* targets and base times: around midnight, in the morning, around noon
CallTargets == {0, 1, 5, 540, 719, 720, 1434, 1438, 1439}

\* windowMinutes: none, the one of the example, the configured one, around
\* half a day, a whole day, more than a day
CallWindows == {0, 2, TIME_WINDOW_MINUTES, 719, 720, 1440, 1441}

\* isWithinTimeWindow(currentTime, targetTime, windowMinutes)
WindowCall ==
    /\ timeCall = NoCall
    /\ \E current \in DayMinutes, target \in CallTargets, w \in CallWindows :
          timeCall' =
              [fn |-> "isWithinTimeWindow",
               currentTime |-> formatTime(current),
               targetTime |-> formatTime(target),
               windowMinutes |-> w,
               result |-> isWithinTimeWindow(formatTime(current),
                                             formatTime(target), w)]
    /\ UNCHANGED <<executionLock, today, now, users, logs, pc, answer, ctx,
                   held, eligible, idx, attempt, res, req, cycles, syncs,
                   faults, lockTrace>>

\* randomizeTime(baseTime, windowMinutes), Math.random() giving the draw
RandomizeCall ==
    /\ timeCall = NoCall
    /\ \E base \in CallTargets, w \in CallWindows :
          \E draw \in 0..(2 * w) :
              timeCall' =
                  [fn |-> "randomizeTime",
                   baseTime |-> formatTime(base),
                   windowMinutes |-> w,
                   draw |-> draw,
                   result |-> randomizeTime(formatTime(base), w, draw)]
    /\ UNCHANGED <<executionLock, today, now, users, logs, pc, answer, ctx,
                   held, eligible, idx, attempt, res, req, cycles, syncs,
                   faults, lockTrace>>

TimeNext == WindowCall \/ RandomizeCall

\* the statuses updateActionStatus is called on
CallStatuses ==
    [date : 1..MaxDate,
     loginAttempts : {0, MAX_RETRY_ATTEMPTS - 1},
     loginSuccess : BOOLEAN,
     randomizedLoginTime : {<<8, 54>>, NoTime},
     actualInTime : {Undefined, "9:02 AM"},
     logoutAttempts : {0, MAX_RETRY_ATTEMPTS - 1},
     logoutSuccess : BOOLEAN,
     randomizedLogoutTime : {<<18, 6>>},
     actualOutTime : {Undefined, "6:05 PM"},
     lastError : {Undefined, "Failed to update user status"}]

\* the users updateActionStatus is called on: with a status or without
CallUsers ==
    {InitialUser} \cup
    {[InitialUser EXCEPT !.todayStatus = <<st>>] : st \in CallStatuses}

\* updateActionStatus(user, action, success, error, actualTime), called on
\* the date currentDate
StatusCall ==
    /\ timeCall = NoCall
    /\ \E user \in CallUsers, action \in {"login", "logout"},
          success \in BOOLEAN,
          error \in {Undefined, "", "login failed - no error details"},
          actualTime \in {Undefined, "9:05 AM"},
          currentDate \in 1..MaxDate, draws \in DrawPairs :
          timeCall' =
              [fn |-> "updateActionStatus",
               user |-> user,
               action |-> action,
               success |-> success,
               error |-> error,
               actualTime |-> actualTime,
               currentDate |-> currentDate,
               result |-> updateActionStatus(user, action, success, error,
                              actualTime, currentDate, draws)]
    /\ UNCHANGED <<executionLock, today, now, users, logs, pc, answer, ctx,
                   held, eligible, idx, attempt, res, req, cycles, syncs,
                   faults, lockTrace>>

StatusSpec == Init /\ [][StatusCall]_vars

TimeSpec == Init /\ [][TimeNext]_vars

-----------------------------------------------------------------------------
(* Properties of the execution lock and of the two trigger paths *)

\* C1: at most one cycle runs at any time; a cycle runs only while the
\* trigger path that started it holds the lock, and the lock, when taken,
\* is held by the one path whose cycle is running
C1_OneCycleUnderTheLock ==
    /\ Cardinality({h \in CycleHandlers : pc[h] # "idle"}) <= 1
    /\ \A h \in CycleHandlers :
          pc[h] # "idle" => executionLock.locked /\ executionLock.source = h
    /\ executionLock.locked =>
          /\ executionLock.source \in CycleHandlers
          /\ pc[executionLock.source] # "idle"

\* a trigger request was refused while the cycle of a tick calls the provider
C1_Witness ==
    /\ pc["cron"] = "call"
    /\ answer = <<"manual", "409">>

\* C2: a tick that fires while the lock is held starts no cycle, moves no
\* handler (so calls no provider action) and leaves the lock, the file and
\* the logs as they are; and a cycle starts only in the step of a tick or
\* request that found the lock free, never later on behalf of a refused one
C2_TickUnderLockDoesNothing ==
    [][ /\ (executionLock.locked /\ CronTick) =>
              /\ answer' = <<"cron", "skipped">>
              /\ UNCHANGED <<executionLock, pc, cycles, ctx, eligible, idx,
                             attempt, res, users, logs, held>>
        /\ cycles' # cycles =>
              /\ ~executionLock.locked
              /\ cycles' = cycles + 1
              /\ answer' \in {<<"cron", "started">>, <<"manual", "202">>} ]_vars

\* a tick was skipped while the cycle of a manual run holds the lock
C2_Witness ==
    /\ answer = <<"cron", "skipped">>
    /\ executionLock.locked
    /\ executionLock.source = "manual"
    /\ pc["manual"] = "call"

\* C3: a trigger request that finds the lock held is answered 409, starts
\* no cycle and leaves the lock as it is; one that finds it free takes the
\* lock with source manual, is answered 202 and starts one cycle
C3_ManualTriggerAnswers ==
    [][ ManualTrigger =>
          IF executionLock.locked
          THEN /\ answer' = <<"manual", "409">>
               /\ UNCHANGED <<executionLock, pc, cycles, ctx, eligible, idx,
                              attempt, res, users, logs, held>>
          ELSE /\ answer' = <<"manual", "202">>
               /\ executionLock'.locked
               /\ executionLock'.source = "manual"
               /\ executionLock'.startTime = <<today', now'>>
               /\ cycles' = cycles + 1
               /\ pc["manual"] = "idle" /\ pc'["manual"] = "read"
               /\ pc'["cron"] = pc["cron"] ]_vars

\* a request was refused while the cycle of an accepted request was running
C3_Witness ==
    /\ answer = <<"manual", "409">>
    /\ executionLock.locked
    /\ executionLock.source = "manual"
    /\ pc["manual"] = "log"

\* C4: when every await settles, a lock taken by a trigger path is released
\* again, also after errors of the cycle, and the step that frees the lock
\* is the finally block of the path that holds it
C4_LockIsReleasedByItsHolder ==
    /\ executionLock.locked ~> ~executionLock.locked
    /\ [][ (executionLock.locked /\ ~executionLock'.locked) =>
              Release(executionLock.source) ]_vars

\* the lock is free again after a cycle that a store error made abandon
C4_Witness ==
    /\ ~executionLock.locked
    /\ cycles = 1
    /\ faults = 1
    /\ logs = <<>>
    /\ \A h \in CycleHandlers : pc[h] = "idle"

\* C5: acquireLock called while the lock is held returns false and leaves
\* locked, source and startTime as they were, whoever holds and whoever asks
C5_HeldLockRefusesEveryone ==
    \A i \in 2..Len(lockTrace) :
        (lockTrace[i].op = "acquire" /\ lockTrace[i - 1].status.locked) =>
            /\ lockTrace[i].returned = FALSE
            /\ lockTrace[i].status = lockTrace[i - 1].status

\* the holder itself asked again, at a later reading of the clock
C5_Witness ==
    \E i \in 2..Len(lockTrace) :
        /\ lockTrace[i].op = "acquire"
        /\ lockTrace[i - 1].op = "acquire"
        /\ lockTrace[i - 1].returned = TRUE
        /\ lockTrace[i].source = lockTrace[i - 1].source
        /\ lockTrace[i].at # lockTrace[i - 1].at

\* C6: acquireLock returns true iff the lock was free at the call, and the
\* status then reports the caller as holder; after acquire('cron') succeeds
\* acquire('manual') returns false, and after a release() acquire('manual')
\* returns true with the status locked by manual
C6_AcquireIffFree ==
    /\ \A i \in 1..Len(lockTrace) :
          lockTrace[i].op = "acquire" =>
             /\ lockTrace[i].returned =
                   (i = 1 \/ ~lockTrace[i - 1].status.locked)
             /\ lockTrace[i].returned = TRUE =>
                   /\ lockTrace[i].status.locked
                   /\ lockTrace[i].status.source = lockTrace[i].source
                   /\ lockTrace[i].status.startTime = lockTrace[i].at
    /\ \A i \in 1..Len(lockTrace) :
          lockTrace[i].op = "release" => ~lockTrace[i].status.locked
    /\ \A i \in 1..(Len(lockTrace) - 3) :
          ( /\ lockTrace[i].op = "acquire" /\ lockTrace[i].source = "cron"
            /\ lockTrace[i].returned = TRUE
            /\ lockTrace[i + 1].op = "acquire"
            /\ lockTrace[i + 1].source = "manual"
            /\ lockTrace[i + 2].op = "release"
            /\ lockTrace[i + 3].op = "acquire"
            /\ lockTrace[i + 3].source = "manual" ) =>
          /\ lockTrace[i + 1].returned = FALSE
          /\ lockTrace[i + 3].returned = TRUE
          /\ lockTrace[i + 3].status.locked
          /\ lockTrace[i + 3].status.source = "manual"

\* acquire('cron'), acquire('manual'), release(), acquire('manual')
C6_Witness ==
    /\ Len(lockTrace) = 4
    /\ lockTrace[1].op = "acquire" /\ lockTrace[1].source = "cron"
    /\ lockTrace[2].op = "acquire" /\ lockTrace[2].source = "manual"
    /\ lockTrace[3].op = "release"
    /\ lockTrace[4].op = "acquire" /\ lockTrace[4].source = "manual"
    /\ executionLock.locked

-----------------------------------------------------------------------------
(* Properties of the success flags and of the attempt counters *)

\* C7: a call of getEligibleUsers returns no login entry for a user whose
\* stored status carries the current date and loginSuccess, and no logout
\* entry for one with logoutSuccess, whatever the time, the weekday and the
\* attempts; an entry for such a user is returned only for another date
C7_NoEntryAfterSuccess ==
    [][ \A i \in 1..Len(users), k \in 1..Len(eligible'["cron"]) :
          ( /\ eligible'["cron"][k].user.id = users[i].id
            /\ HasStatus(users[i])
            /\ Status(users[i]).date = ctx'["cron"].currentDate ) =>
          /\ eligible'["cron"][k].action = "login" =>
                ~Status(users[i]).loginSuccess
          /\ eligible'["cron"][k].action = "logout" =>
                ~Status(users[i]).logoutSuccess ]_vars

\* in the login window of a working day, a user whose login of that date
\* succeeded is left out
C7_Witness ==
    /\ ctx["cron"].currentTime = <<9, 0>>
    /\ ctx["cron"].currentDay \in users[1].weekdays
    /\ HasStatus(users[1])
    /\ Status(users[1]).date = ctx["cron"].currentDate
    /\ Status(users[1]).loginSuccess
    /\ ~Status(users[1]).logoutSuccess
    /\ \A k \in 1..Len(eligible["cron"]) : eligible["cron"][k].action # "login"

C9_SuccessFlagsNeverRevert ==
    [][ \A i \in 1..Len(users), j \in 1..Len(users') :
          ( /\ users[i].id = users'[j].id
            /\ HasStatus(users[i]) /\ HasStatus(users'[j])
            /\ Status(users[i]).date = Status(users'[j]).date ) =>
          /\ Status(users[i]).loginSuccess => Status(users'[j]).loginSuccess
          /\ Status(users[i]).logoutSuccess => Status(users'[j]).logoutSuccess
      ]_vars

\* C10: no step makes a stored loginAttempts or logoutAttempts smaller while
\* the date of the status stays the same
C10_AttemptsNeverDecrease ==
    [][ \A i \in 1..Len(users), j \in 1..Len(users') :
          ( /\ users[i].id = users'[j].id
            /\ HasStatus(users[i]) /\ HasStatus(users'[j])
            /\ Status(users[i]).date = Status(users'[j]).date ) =>
          /\ Status(users'[j]).loginAttempts >= Status(users[i]).loginAttempts
          /\ Status(users'[j]).logoutAttempts >= Status(users[i]).logoutAttempts
      ]_vars

-----------------------------------------------------------------------------
(* Properties of the eligibility rules.  After a call of getEligibleUsers   *)
(* ctx holds the context of the call, users the array the rules were        *)
(* applied to and eligible the entries returned.                            *)

Minutes(t) == t[1] * 60 + t[2]

CircularDistance(a, b) == Min(Abs(a - b), 1440 - Abs(a - b))

Called == ctx["cron"] # NoCtx

CurrentMinutes == Minutes(ctx["cron"].currentTime)

Scheduled(i) == ctx["cron"].currentDay \in users[i].weekdays

HasEntry(i, action) ==
    \E k \in 1..Len(eligible["cron"]) :
        /\ eligible["cron"][k].user.id = users[i].id
        /\ eligible["cron"][k].action = action

\* the login rule, on minutes, for the target T
LoginRule(i, T) ==
    /\ ~Status(users[i]).loginSuccess
    /\ CurrentMinutes < Minutes(EMERGENCY_LOGOUT_START)
    /\ \/ CircularDistance(CurrentMinutes, T) <= TIME_WINDOW_MINUTES
       \/ /\ CurrentMinutes > T
          /\ CurrentMinutes - T <= EXTENDED_RETRY_HOURS * 60
          /\ Status(users[i]).loginAttempts < MAX_RETRY_ATTEMPTS
       \/ /\ CurrentMinutes > T
          /\ CurrentMinutes - T > EXTENDED_RETRY_HOURS * 60

\* the logout rule, on minutes, for the target T
LogoutRule(i, T) ==
    /\ ~Status(users[i]).logoutSuccess
    /\ \/ CircularDistance(CurrentMinutes, T) <= TIME_WINDOW_MINUTES
       \/ Status(users[i]).loginSuccess /\ CurrentMinutes > T
       \/ /\ Minutes(EMERGENCY_LOGOUT_START) <= CurrentMinutes
          /\ CurrentMinutes <= Minutes(EMERGENCY_LOGOUT_END)

\* C11: for a user scheduled on the current day, getEligibleUsers returns a
\* login entry if and only if loginSuccess is false, the current time is
\* strictly before the emergency start, and the time is within the window
\* of the login time, or after it by at most the retry horizon with fewer
\* than MAX_RETRY_ATTEMPTS attempts, or after it by more than the horizon
C11_LoginRule ==
    Called =>
        \A i \in 1..Len(users) :
            Scheduled(i) =>
                (HasEntry(i, "login") <=> LoginRule(i, Minutes(users[i].loginTime)))

\* the last minute of the horizon, with the attempts used up: no login entry
C11_Witness ==
    /\ Called
    /\ Scheduled(1)
    /\ CurrentMinutes - Minutes(users[1].loginTime) = EXTENDED_RETRY_HOURS * 60
    /\ Status(users[1]).loginAttempts = MAX_RETRY_ATTEMPTS
    /\ ~Status(users[1]).loginSuccess
    /\ ~HasEntry(1, "login")

\* C12: for a user scheduled on the current day, getEligibleUsers returns a
\* logout entry if and only if logoutSuccess is false and the current time
\* is within the window of the logout time, or after it with loginSuccess
\* true, or inside the emergency window; logoutAttempts plays no part
C12_LogoutRule ==
    Called =>
        \A i \in 1..Len(users) :
            Scheduled(i) =>
                (HasEntry(i, "logout") <=>
                    LogoutRule(i, Minutes(users[i].logoutTime)))

\* logged in, past the logout window, before the emergency window, with the
\* logout attempts at the limit: the logout is still returned
C12_Witness ==
    /\ Called
    /\ Scheduled(1)
    /\ Status(users[1]).loginSuccess
    /\ ~Status(users[1]).logoutSuccess
    /\ Status(users[1]).logoutAttempts = MAX_RETRY_ATTEMPTS
    /\ CurrentMinutes > Minutes(users[1].logoutTime) + TIME_WINDOW_MINUTES
    /\ CurrentMinutes < Minutes(EMERGENCY_LOGOUT_START)
    /\ HasEntry(1, "logout")

\* C13: the targets of the eligibility tests are the randomized times of the
\* day's status: for a user scheduled on the current day a login entry is
\* returned exactly when the login rule holds for randomizedLoginTime, and a
\* logout entry exactly when the logout rule holds for randomizedLogoutTime
C13_TargetsAreRandomizedTimes ==
    Called =>
        \A i \in 1..Len(users) :
            Scheduled(i) =>
                /\ HasEntry(i, "login") <=>
                      LoginRule(i, Minutes(Status(users[i]).randomizedLoginTime))
                /\ HasEntry(i, "logout") <=>
                      LogoutRule(i, Minutes(Status(users[i]).randomizedLogoutTime))

\* C14: for a user scheduled on the current day with no login success, at
\* every call whose time is after the login time by more than the retry
\* horizon and strictly before the emergency start, a login entry is
\* returned, whatever the number of login attempts
C14_NoCapAfterHorizon ==
    Called =>
        \A i \in 1..Len(users) :
            ( /\ Scheduled(i)
              /\ ~Status(users[i]).loginSuccess
              /\ CurrentMinutes - Minutes(users[i].loginTime)
                    > EXTENDED_RETRY_HOURS * 60
              /\ CurrentMinutes < Minutes(EMERGENCY_LOGOUT_START) )
            => HasEntry(i, "login")

\* the first minute after the horizon, with the attempts at the limit: the
\* login is returned
C14_Witness ==
    /\ Called
    /\ Scheduled(1)
    /\ ~Status(users[1]).loginSuccess
    /\ Status(users[1]).loginAttempts = MAX_RETRY_ATTEMPTS
    /\ CurrentMinutes - Minutes(users[1].loginTime) = EXTENDED_RETRY_HOURS * 60 + 1
    /\ HasEntry(1, "login")

\* the user of the scenario: 09:00 to 18:00, Monday to Friday, on a Monday
ScenarioCall(minute) ==
    /\ Called
    /\ users[1].loginTime = <<9, 0>>
    /\ users[1].logoutTime = <<18, 0>>
    /\ users[1].weekdays = 1..5
    /\ ctx["cron"].currentDay = 1
    /\ CurrentMinutes = minute

\* C15 as stated: login is returned at 08:58; with no login success it is
\* still returned at 09:10; after a successful login none is returned at 09:11
C15_ScenarioAsStated ==
    /\ (ScenarioCall(538) /\ ~Status(users[1]).loginSuccess)
          => HasEntry(1, "login")
    /\ (ScenarioCall(550) /\ ~Status(users[1]).loginSuccess)
          => HasEntry(1, "login")
    /\ (ScenarioCall(551) /\ Status(users[1]).loginSuccess)
          => ~HasEntry(1, "login")

\* C15, amended: login is returned at 08:58; with no login success, at 09:10
\* (inside the two hours of bounded retry) it is returned exactly when fewer
\* than MAX_RETRY_ATTEMPTS attempts were made; after a successful login none
\* is returned at 09:11
C15_ScenarioBoundedRetry ==
    /\ (ScenarioCall(538) /\ ~Status(users[1]).loginSuccess)
          => HasEntry(1, "login")
    /\ (ScenarioCall(550) /\ ~Status(users[1]).loginSuccess)
          => (HasEntry(1, "login") <=>
                Status(users[1]).loginAttempts < MAX_RETRY_ATTEMPTS)
    /\ (ScenarioCall(551) /\ Status(users[1]).loginSuccess)
          => ~HasEntry(1, "login")

\* 09:10 on the Monday, three failed attempts: no login entry
C15_Witness ==
    /\ ScenarioCall(550)
    /\ ~Status(users[1]).loginSuccess
    /\ Status(users[1]).loginAttempts = MAX_RETRY_ATTEMPTS
    /\ ~HasEntry(1, "login")

\* C16: for a user scheduled on the current day with neither a login success
\* (whatever the login attempts, zero included) nor a logout success, a
\* logout entry is returned at every time from the emergency start to the
\* emergency end, both included
C16_EmergencyLogout ==
    Called =>
        \A i \in 1..Len(users) :
            ( /\ Scheduled(i)
              /\ ~Status(users[i]).loginSuccess
              /\ ~Status(users[i]).logoutSuccess
              /\ Minutes(EMERGENCY_LOGOUT_START) <= CurrentMinutes
              /\ CurrentMinutes <= Minutes(EMERGENCY_LOGOUT_END) )
            => HasEntry(i, "logout")

\* the last minute of the emergency window, a user who never tried to log
\* in and whose logout time is hours away: the logout is returned
C16_Witness ==
    /\ Called
    /\ Scheduled(1)
    /\ Status(users[1]).loginAttempts = 0
    /\ ~Status(users[1]).loginSuccess
    /\ ~Status(users[1]).logoutSuccess
    /\ users[1].logoutTime = <<18, 0>>
    /\ ctx["cron"].currentTime = EMERGENCY_LOGOUT_END
    /\ HasEntry(1, "logout")

\* C17: a call of getEligibleUsers that follows a call with the same
\* currentDate, nothing else having run in between, writes nothing to the
\* user store and leaves the todayStatus of every user as it was
C17_SecondCallWritesNothing ==
    [][ (Called /\ ctx'["cron"].currentDate = ctx["cron"].currentDate) =>
          /\ held'["cron"] = <<>>
          /\ users' = users
          /\ \A i \in 1..Len(users) :
                users'[i].todayStatus = users[i].todayStatus ]_vars

\* a status of the second date, which only a call can have written, and a
\* last call for that date that wrote nothing: it followed the writing one
C17_Witness ==
    /\ Called
    /\ ctx["cron"].currentDate = 2
    /\ Status(users[1]).date = 2
    /\ held["cron"] = <<>>

\* C18: a user whose weekdays do not contain the current day gets neither a
\* login nor a logout entry from getEligibleUsers, at every time and in
\* every status, the emergency window included
C18_OffDayUserIsSkipped ==
    Called =>
        \A i \in 1..Len(users) :
            ~Scheduled(i) =>
                /\ ~HasEntry(i, "login")
                /\ ~HasEntry(i, "logout")

\* inside the emergency window, a user off that day with neither success
C18_Witness ==
    /\ Called
    /\ ~Scheduled(1)
    /\ ~Status(users[1]).loginSuccess
    /\ ~Status(users[1]).logoutSuccess
    /\ ctx["cron"].currentTime = EMERGENCY_LOGOUT_START
    /\ eligible["cron"] = <<>>

-----------------------------------------------------------------------------
(* Properties of the time utilities *)

\* C19: for every current and target minute of the day and every window
\* w >= 0, isWithinTimeWindow is true exactly when the smaller of
\* |current - target| and 1440 - |current - target| is at most w, and it
\* gives the same result with current and target swapped
C19_WindowIsCircularDistance ==
    timeCall.fn = "isWithinTimeWindow" =>
        /\ timeCall.result =
              (CircularDistance(Minutes(timeCall.currentTime),
                                Minutes(timeCall.targetTime))
                  <= timeCall.windowMinutes)
        /\ timeCall.result =
              isWithinTimeWindow(timeCall.targetTime, timeCall.currentTime,
                                 timeCall.windowMinutes)

\* 23:59 against 00:01 with a window of 2 minutes: true, across midnight
C19_Witness ==
    /\ timeCall.fn = "isWithinTimeWindow"
    /\ timeCall.currentTime = <<23, 59>>
    /\ timeCall.targetTime = <<0, 1>>
    /\ timeCall.windowMinutes = 2
    /\ timeCall.result = TRUE

-----------------------------------------------------------------------------
(* Properties of the stored status, of the queue processor and of the      *)
(* executor                                                                *)

\* C21: while the stored status of a user keeps its date, its
\* randomizedLoginTime and randomizedLogoutTime keep the values the lazy
\* reset generated: no step of a cycle, of a status update or of a sync
\* changes them
C21_RandomizedTimesKeptForTheDay ==
    [][ \A i \in 1..Len(users) :
          ( /\ i <= Len(users')
            /\ HasStatus(users[i])
            /\ HasStatus(users'[i])
            /\ Status(users'[i]).date = Status(users[i]).date ) =>
          /\ Status(users'[i]).randomizedLoginTime =
                Status(users[i]).randomizedLoginTime
          /\ Status(users'[i]).randomizedLogoutTime =
                Status(users[i]).randomizedLogoutTime ]_vars

\* the handlers whose provider call (health check, login or logout) is on
InFlight == {h \in CycleHandlers : pc[h] \in {"health", "call"}}

\* no login after a logout in a sequence of entries or of log lines
LoginsFirst(seq) ==
    \A j, k \in 1..Len(seq) :
        j < k => ~(seq[j].action = "logout" /\ seq[k].action = "login")

\* C22: within one cycle the entries are processed one at a time in list
\* order, every login before the first logout: the list holds no login
\* after a logout, neither does the log, the index moves on by one and only
\* when the log of the current entry was handed over, and no two provider
\* calls are in flight together
C22_LoginsThenLogoutsInOrder ==
    /\ [](/\ Cardinality(InFlight) <= 1
          /\ LoginsFirst(logs)
          /\ \A h \in CycleHandlers : LoginsFirst(eligible[h]))
    /\ [][ \A h \in CycleHandlers :
             (idx[h] > 0 /\ idx'[h] # idx[h]) =>
                 /\ pc[h] = "log"
                 /\ idx'[h] = IF idx[h] < Len(eligible[h])
                                THEN idx[h] + 1 ELSE 0 ]_vars

\* the first logout is with the provider, both logins are in the log
C22_Witness ==
    /\ pc["cron"] = "call"
    /\ Len(eligible["cron"]) = 4
    /\ idx["cron"] = 3
    /\ Entry("cron").action = "logout"
    /\ Len(logs) = 2
    /\ logs[1].action = "login" /\ logs[1].userId = "u1"
    /\ logs[2].action = "login" /\ logs[2].userId = "u2"

\* the index of the entry that follows entry i of the list of h, 0 at the end
NextIndex(h, i) == IF i < Len(eligible[h]) THEN i + 1 ELSE 0

\* logAttendanceExecution was called for the entry of h: the line is
\* appended, or appendLog threw
AppendAttempted(h) ==
    \/ /\ Len(logs') = Len(logs) + 1
       /\ SubSeq(logs', 1, Len(logs)) = logs
       /\ logs'[Len(logs')].userId = Entry(h).user.id
       /\ logs'[Len(logs')].action = Entry(h).action
    \/ /\ logs' = logs
       /\ faults' = faults + 1

\* C23: in every cycle one log append is attempted for each pair that
\* getEligibleUsers returned, whatever the outcome: the list holds no pair
\* twice and does not change during the cycle, the cycle starts with its
\* first pair, moves to the next pair only by attempting the append for the
\* current one, appends nothing otherwise and ends only after the last pair
C23_OneLogAppendPerPair ==
    /\ [](\A h \in CycleHandlers : \A j, k \in 1..Len(eligible[h]) :
             (eligible[h][j].user.id = eligible[h][k].user.id
              /\ eligible[h][j].action = eligible[h][k].action) => j = k)
    /\ [][ /\ logs' # logs => \E h \in CycleHandlers : pc[h] = "log"
           /\ \A h \in CycleHandlers :
                /\ (idx[h] = 0 /\ idx'[h] # 0) =>
                      idx'[h] = 1 /\ eligible'[h] # <<>>
                /\ idx[h] > 0 =>
                      \/ eligible'[h] = eligible[h]
                      \/ idx'[h] = 0 /\ eligible'[h] = <<>>
                /\ (idx[h] > 0 /\ idx'[h] # idx[h]) => pc[h] = "log"
                /\ (pc[h] = "log" /\ pc'[h] # "log") =>
                      /\ AppendAttempted(h)
                      /\ idx'[h] = NextIndex(h, idx[h])
                /\ (pc[h] # "release" /\ pc'[h] = "release") =>
                      /\ idx'[h] = 0
                      /\ idx[h] = 0 \/ (pc[h] = "log" /\ idx[h] = Len(eligible[h]))
         ]_vars

\* the login succeeded and is logged, the user was deleted before the logout
\* was processed, and the logout is logged as well
C23_Witness ==
    /\ pc["cron"] = "release"
    /\ Len(logs) = 2
    /\ logs[1].action = "login" /\ logs[1].success
    /\ logs[2].action = "logout"
    /\ logs[2].error = "User not found or password decryption failed"

\* the read of the users or the write of the lazy resets throws in the
\* getEligibleUsers call of h
EligibilityFails(h) ==
    /\ pc[h] \in {"read", "resetWrite"}
    /\ faults' = faults + 1

\* C24: when the read of the users or the write of the lazy resets fails
\* inside getEligibleUsers, the cycle goes straight to the release of the
\* lock with no entry to process, no provider call, no log line and no
\* change of the store; the release frees the lock and leaves the trigger
\* path idle, ready for a later tick
C24_EligibilityFailureAbortsTheCycle ==
    [][ \A h \in CycleHandlers :
          /\ EligibilityFails(h) =>
                /\ pc'[h] = "release"
                /\ eligible'[h] = <<>> /\ idx'[h] = 0
                /\ logs' = logs
                /\ users' = users
          /\ (pc[h] = "release" /\ pc'[h] # "release") =>
                /\ pc'[h] = "idle"
                /\ ~executionLock'.locked
                /\ logs' = logs ]_vars

\* the first cycle failed in getEligibleUsers (the one fault is used, and
\* on this first date the log is empty and no attempt was counted), and the
\* cycle of a later tick is processing its first entry
C24_Witness ==
    /\ cycles = 2
    /\ today = 1
    /\ faults = 1
    /\ logs = <<>>
    /\ pc["cron"] = "call"
    /\ idx["cron"] = 1
    /\ executionLock.locked /\ executionLock.source = "cron"
    /\ Status(users[1]).loginAttempts = 0
    /\ Status(users[1]).logoutAttempts = 0

-----------------------------------------------------------------------------
(* Properties of the user store *)

\* the record has the schedule and the weekdays of the request body
SameSchedule(user, userData) ==
    /\ user.loginTime = userData.loginTime
    /\ user.logoutTime = userData.logoutTime
    /\ user.weekdays = userData.weekdays

Decisions(entries) ==
    [k \in 1..Len(entries) |-> <<entries[k].user.id, entries[k].action>>]

\* the users with the schedule their status of the day was reset under: a
\* status whose randomized times are cleared belongs to a user edited since
\* its reset, and the schedule before an edit is the initial one
AsReset(arr) ==
    [i \in 1..Len(arr) |->
        IF HasStatus(arr[i]) /\ Status(arr[i]).randomizedLoginTime = NoTime
        THEN [arr[i] EXCEPT !.loginTime = InitialUser.loginTime,
                            !.logoutTime = InitialUser.logoutTime]
        ELSE arr[i]]

\* C26: a cycle that finds every status already reset for the day decides
\* the entries as if no schedule had been edited since the reset: an edit
\* by sync affects eligibility only after the next date-based reset
C26_EditWaitsForNextReset ==
    [][ \A h \in CycleHandlers :
          (pc[h] = "read" /\ pc'[h] \in {"find", "release"}
              /\ faults' = faults) =>
              Decisions(eligible'[h]) =
                  Decisions(QueueOrder(EligibleOf(AsReset(users),
                      ctx[h].currentTime, ctx[h].currentDay))) ]_vars

-----------------------------------------------------------------------------
(* Properties of the action executor *)

\* lastResult of the invocation in progress reports a success
LastSucceeded(h) == res[h].log_in \/ res[h].log_out

\* C27: one invocation of executeAttendanceAction makes at most
\* MAX_RETRY_ATTEMPTS attempts; it stops at the first successful call (the
\* loop never goes on with a successful result in hand); it waits only
\* when another attempt follows; and it reaches the failure update after
\* the loop only when MAX_RETRY_ATTEMPTS attempts were made
C27_BoundedRetryStopsAtSuccess ==
    \A h \in CycleHandlers :
        /\ attempt[h] \in 0..MAX_RETRY_ATTEMPTS
        /\ pc[h] \in {"delay", "health", "call"} => ~LastSucceeded(h)
        /\ pc[h] = "delay" => attempt[h] < MAX_RETRY_ATTEMPTS
        /\ pc[h] \in {"failRead", "failWrite"} =>
              attempt[h] = MAX_RETRY_ATTEMPTS

\* the positions of a handler inside executeAttendanceAction
ExecutorStates == {"health", "call", "delay", "okRead", "okWrite",
                   "failRead", "failWrite"}

\* the attempt counter of the day for the action
AttemptsOf(user, action, date) ==
    IF HasStatus(user) /\ Status(user).date = date
    THEN IF action = "login" THEN Status(user).loginAttempts
         ELSE Status(user).logoutAttempts
    ELSE 0

\* the step is the normal return of the invocation of h
ReturnsNormally(h) ==
    /\ pc[h] \in ExecutorStates
    /\ pc'[h] = "log"
    /\ res'[h].logError = Undefined

\* the step of h writes the status of its entry, once: the flag and the
\* counter of the action, which grows by 1
WritesStatus(h, success) ==
    LET i == FindIndex(users, Entry(h).user.id)
        action == Entry(h).action
        after == Status(users'[i])
    IN  /\ i # 0
        /\ users' = held[h]
        /\ \A j \in 1..Len(users) : j # i => users'[j] = users[j]
        /\ IF action = "login" THEN after.loginSuccess = success
           ELSE after.logoutSuccess = success
        /\ AttemptsOf(users'[i], action, after.date) =
              AttemptsOf(users[i], action, after.date) + 1

\* C28: an invocation of executeAttendanceAction writes the status only in
\* the step in which it returns, hence once: with success and the reported
\* time right after the first successful attempt, or with failure and the
\* last error after the final failed attempt; the attempt counter of the
\* day for the action grows by exactly 1
C28_StatusWrittenOncePerInvocation ==
    [][ \A h \in CycleHandlers :
          /\ ( pc[h] \in ExecutorStates /\ pc'[h] \in ExecutorStates
                 /\ pc'[h] # pc[h] ) =>
                /\ users' = users
                /\ pc[h] \in {"okRead", "okWrite"} => pc'[h] = "okWrite"
          /\ ReturnsNormally(h) =>
                \/ /\ pc[h] = "okWrite"
                   /\ LastSucceeded(h)
                   /\ WritesStatus(h, TRUE)
                   /\ Truthy(res[h].actualTime) =>
                        LET st == Status(users'[FindIndex(users,
                                                 Entry(h).user.id)])
                        IN  IF Entry(h).action = "login"
                            THEN st.actualInTime = res[h].actualTime
                            ELSE st.actualOutTime = res[h].actualTime
                \/ /\ pc[h] = "failWrite"
                   /\ ~LastSucceeded(h)
                   /\ attempt[h] = MAX_RETRY_ATTEMPTS
                   /\ WritesStatus(h, FALSE)
                   /\ Status(users'[FindIndex(users, Entry(h).user.id)])
                         .lastError = res[h].lastError ]_vars

\* C29: a health check that reports no connectivity fails the action at
\* once: the provider is called only after a health check that passed, and
\* after one that failed the retry loop is over (no delay, no further
\* attempt), the failure being recorded next
C29_HealthFailureIsNotRetried ==
    [][ \A h \in CycleHandlers :
          /\ (pc'[h] = "call" /\ pc[h] # "call") => pc[h] = "health"
          /\ (pc[h] = "health" /\ pc'[h] # "health") =>
                \/ pc'[h] = "call"
                \/ /\ pc'[h] = "failRead"
                   /\ ~LastSucceeded(h)' ]_vars

-----------------------------------------------------------------------------
(* Properties of the status tracker *)

\* the call is an updateActionStatus for the action, on a status dated
\* the current date
CallOnTodaysStatus(action) ==
    /\ timeCall.fn = "updateActionStatus"
    /\ timeCall.action = action
    /\ HasStatus(timeCall.user)
    /\ Status(timeCall.user).date = timeCall.currentDate

\* C30: on a status dated today, updateActionStatus for 'login' adds 1 to
\* loginAttempts, sets loginSuccess to the value given and leaves
\* logoutAttempts, logoutSuccess, actualOutTime, the date and both
\* randomized times as they are; for 'logout' the same with the roles of
\* the two actions exchanged; with no actualTime given the actual time
\* stored before is kept, with one given it is stored
C30_UpdateActionStatusFrame ==
    LET before == Status(timeCall.user)
        after == Status(timeCall.result)
    IN  /\ CallOnTodaysStatus("login") =>
              /\ after.loginAttempts = before.loginAttempts + 1
              /\ after.loginSuccess = timeCall.success
              /\ after.logoutAttempts = before.logoutAttempts
              /\ after.logoutSuccess = before.logoutSuccess
              /\ after.actualOutTime = before.actualOutTime
              /\ after.date = before.date
              /\ after.randomizedLoginTime = before.randomizedLoginTime
              /\ after.randomizedLogoutTime = before.randomizedLogoutTime
              /\ after.actualInTime =
                    IF timeCall.actualTime = Undefined
                    THEN before.actualInTime ELSE timeCall.actualTime
        /\ CallOnTodaysStatus("logout") =>
              /\ after.logoutAttempts = before.logoutAttempts + 1
              /\ after.logoutSuccess = timeCall.success
              /\ after.loginAttempts = before.loginAttempts
              /\ after.loginSuccess = before.loginSuccess
              /\ after.actualInTime = before.actualInTime
              /\ after.date = before.date
              /\ after.randomizedLoginTime = before.randomizedLoginTime
              /\ after.randomizedLogoutTime = before.randomizedLogoutTime
              /\ after.actualOutTime =
                    IF timeCall.actualTime = Undefined
                    THEN before.actualOutTime ELSE timeCall.actualTime

\* a failed login recorded with no actual time on a status that holds one:
\* the attempts go from 2 to 3 and the time of the morning is kept
C30_Witness ==
    /\ CallOnTodaysStatus("login")
    /\ timeCall.success = FALSE
    /\ timeCall.actualTime = Undefined
    /\ Status(timeCall.user).actualInTime = "9:02 AM"
    /\ Status(timeCall.user).loginAttempts = 2
    /\ Status(timeCall.user).logoutSuccess
    /\ Status(timeCall.result).loginAttempts = 3
    /\ Status(timeCall.result).actualInTime = "9:02 AM"
    /\ Status(timeCall.result).logoutSuccess

\* the call is an updateActionStatus that finds a status dated the current
\* date
CallKeepsStatus ==
    CallOnTodaysStatus("login") \/ CallOnTodaysStatus("logout")

\* C31: updateActionStatus stores a new lastError only when a non-empty
\* error is given; an update with no error, or an empty one, on a status
\* dated today leaves the stored lastError as it is, whichever the action
\* and whether it succeeded; a stored lastError disappears only when the
\* status is replaced because its date is not the current date
C31_LastErrorOnlyOverwritten ==
    timeCall.fn = "updateActionStatus" =>
        LET after == Status(timeCall.result) IN
        /\ CallKeepsStatus =>
              after.lastError =
                  IF timeCall.error \in {Undefined, ""}
                  THEN Status(timeCall.user).lastError
                  ELSE timeCall.error
        /\ ( /\ HasStatus(timeCall.user)
             /\ Status(timeCall.user).lastError # Undefined
             /\ after.lastError = Undefined ) =>
              Status(timeCall.user).date # timeCall.currentDate

\* a successful logout, no error given, on a status of today that holds an
\* error: the error is still there
C31_Witness ==
    /\ CallOnTodaysStatus("logout")
    /\ timeCall.success
    /\ timeCall.error = Undefined
    /\ Status(timeCall.user).lastError = "Failed to update user status"
    /\ Status(timeCall.result).logoutSuccess
    /\ Status(timeCall.result).lastError = "Failed to update user status"

\* the call is an updateActionStatus that finds no status, or one dated
\* another day
CallResetsStatus ==
    /\ timeCall.fn = "updateActionStatus"
    /\ \/ ~HasStatus(timeCall.user)
       \/ Status(timeCall.user).date # timeCall.currentDate

\* the values randomizeTime can give for a base time
RandomizedFrom(baseTime) ==
    {randomizeTime(baseTime, TIME_WINDOW_MINUTES, draw) :
         draw \in 0..(2 * TIME_WINDOW_MINUTES)}

\* C32: on a user whose status is absent or dated another day,
\* updateActionStatus starts from a fresh status of the current date and
\* applies the update to it: the counter of the action is 1 and its flag
\* the value given, the counter of the other action is 0 and its flag
\* false, the actual time and the error are the ones given or absent, the
\* randomized times come from the schedule of the user; nothing of the
\* old status remains
C32_UpdateResetsStaleStatus ==
    CallResetsStatus =>
        LET after == Status(timeCall.result)
            given(v) == IF Truthy(v) THEN v ELSE Undefined
        IN  /\ HasStatus(timeCall.result)
            /\ after.date = timeCall.currentDate
            /\ after.lastError = given(timeCall.error)
            /\ after.randomizedLoginTime \in
                  RandomizedFrom(timeCall.user.loginTime)
            /\ after.randomizedLogoutTime \in
                  RandomizedFrom(timeCall.user.logoutTime)
            /\ IF timeCall.action = "login"
               THEN /\ after.loginAttempts = 1
                    /\ after.loginSuccess = timeCall.success
                    /\ after.actualInTime = given(timeCall.actualTime)
                    /\ after.logoutAttempts = 0
                    /\ ~after.logoutSuccess
                    /\ after.actualOutTime = Undefined
               ELSE /\ after.logoutAttempts = 1
                    /\ after.logoutSuccess = timeCall.success
                    /\ after.actualOutTime = given(timeCall.actualTime)
                    /\ after.loginAttempts = 0
                    /\ ~after.loginSuccess
                    /\ after.actualInTime = Undefined

\* a failed login recorded on day 2 on a status of day 1 that holds two
\* attempts of each action, a logout success, both actual times and an
\* error: the result has one login attempt and nothing of day 1
C32_Witness ==
    /\ CallResetsStatus
    /\ HasStatus(timeCall.user)
    /\ Status(timeCall.user).date = 1
    /\ timeCall.currentDate = 2
    /\ timeCall.action = "login"
    /\ ~timeCall.success
    /\ Status(timeCall.user).loginAttempts = 2
    /\ Status(timeCall.user).logoutAttempts = 2
    /\ Status(timeCall.user).logoutSuccess
    /\ Status(timeCall.user).actualOutTime = "6:05 PM"
    /\ Status(timeCall.user).randomizedLoginTime = NoTime
    /\ Status(timeCall.result).date = 2
    /\ Status(timeCall.result).loginAttempts = 1
    /\ Status(timeCall.result).logoutAttempts = 0
    /\ ~Status(timeCall.result).logoutSuccess

-----------------------------------------------------------------------------
(* Properties of the queue processor under errors *)

\* the user of the entry of h is not on file, or the stored password does
\* not decrypt
CannotBeProcessed(h) ==
    LET i == FindIndex(users, Entry(h).user.id)
    IN  i = 0 \/ decrypt(users[i].password) = Undefined

\* the errors with which findUserWithDecryptedPassword ends an entry
FindErrors == {"User not found or password decryption failed",
               "Failed to find user"}

\* C33: when the user of an eligible action is no longer on file, or the
\* password does not decrypt, the action goes straight to its log line:
\* the executor is not entered and the provider not called (it is reached
\* only for a user found and decrypted), the line appended for the action
\* records a failure with the error, and the loop goes on with the next
\* eligible action
C33_UnprocessableUserIsLoggedAndSkipped ==
    [][ \A h \in CycleHandlers :
          /\ (pc[h] = "find" /\ pc'[h] # "find" /\ CannotBeProcessed(h)) =>
                /\ pc'[h] = "log"
                /\ res'[h].logError \in FindErrors
                /\ attempt'[h] = 0
                /\ users' = users
          /\ (pc'[h] \in {"health", "call"} /\ pc[h] = "find") =>
                ~CannotBeProcessed(h)
          /\ ( /\ pc[h] = "log" /\ pc'[h] # "log"
               /\ res[h].logError \in FindErrors ) =>
                /\ attempt[h] = 0
                /\ idx'[h] = NextIndex(h, idx[h])
                /\ pc'[h] = IF idx[h] < Len(eligible[h]) THEN "find"
                            ELSE "release"
                /\ faults' = faults =>
                      /\ logs' = Append(logs, LogEntry(h))
                      /\ ~logs'[Len(logs')].success
                      /\ logs'[Len(logs')].error = res[h].logError ]_vars

\* the stored password does not decrypt: the cycle is over with one failed
\* line for the login and one for the logout, and no fault of the store
C33_Witness ==
    /\ pc["cron"] = "release"
    /\ faults = 0
    /\ Len(users) = 1
    /\ decrypt(users[1].password) = Undefined
    /\ Len(logs) = 2
    /\ logs[1].action = "login" /\ ~logs[1].success
    /\ logs[1].error = "Failed to find user"
    /\ logs[2].action = "logout" /\ ~logs[2].success
    /\ logs[2].error = "Failed to find user"

\* appendLog throws in the logAttendanceExecution call of h
AppendFails(h) ==
    /\ pc[h] = "log"
    /\ pc'[h] # "log"
    /\ faults' = faults + 1

\* C34: when appendLog throws, logAttendanceExecution swallows the error:
\* nothing is logged, the store keeps the status written for the action,
\* the list of the cycle is not cut short (the loop goes to the next
\* eligible action, or to the release after the last one), the lock stays
\* with the cycle until then, and the release frees it
C34_LogFailureIsSwallowed ==
    [][ \A h \in CycleHandlers :
          /\ AppendFails(h) =>
                /\ logs' = logs
                /\ users' = users
                /\ executionLock' = executionLock
                /\ idx'[h] = NextIndex(h, idx[h])
                /\ IF idx[h] < Len(eligible[h])
                   THEN pc'[h] = "find" /\ eligible'[h] = eligible[h]
                   ELSE pc'[h] = "release"
          /\ (pc[h] = "release" /\ pc'[h] # "release") =>
                /\ pc'[h] = "idle"
                /\ ~executionLock'.locked ]_vars

\* the line of the successful login was lost (the one fault, and the log
\* has no login line), its status is on file, the logout was executed and
\* logged afterwards, and the lock is free
C34_Witness ==
    /\ pc["cron"] = "idle"
    /\ ~executionLock.locked
    /\ faults = 1
    /\ Len(logs) = 1
    /\ logs[1].action = "logout"
    /\ Len(users) = 1
    /\ HasStatus(users[1])
    /\ Status(users[1]).loginSuccess
    /\ Status(users[1]).loginAttempts = 1
    /\ Status(users[1]).logoutAttempts = 1

\* C35: a cycle that has started comes back to idle when every await
\* settles; on the way it is neither restarted nor cancelled (the context
\* and the list are those of its start until the release, the index only
\* moves forward by one), each pair is entered once, and for one pair the
\* provider is called once per iteration of a loop of at most
\* MAX_RETRY_ATTEMPTS iterations
C35_CycleTerminates ==
    /\ \A h \in CycleHandlers : (pc[h] # "idle") ~> (pc[h] = "idle")
    /\ [][ \A h \in CycleHandlers :
             /\ pc[h] # "idle" =>
                   /\ pc'[h] # "idle" => ctx'[h] = ctx[h]
                   /\ pc'[h] = "read" => pc[h] = "read"
                   /\ pc'[h] = "idle" => pc[h] = "release"
             /\ idx'[h] # idx[h] =>
                   \/ idx'[h] = idx[h] + 1 /\ idx'[h] <= Len(eligible'[h])
                   \/ idx'[h] = 0 /\ pc'[h] = "release"
             /\ (pc'[h] = "find" /\ (pc[h] # "find" \/ idx'[h] # idx[h])) =>
                   idx'[h] = idx[h] + 1
             /\ attempt[h] \in 0..MAX_RETRY_ATTEMPTS
             /\ (pc'[h] = "health" /\ pc[h] # "health") =>
                   \/ pc[h] = "find" /\ attempt'[h] = 1
                   \/ /\ pc[h] = "delay"
                      /\ attempt'[h] = attempt[h] + 1
                      /\ idx'[h] = idx[h]
             /\ (pc'[h] = "call" /\ pc[h] # "call") => pc[h] = "health"
         ]_vars

\* the one cycle is over and the processor idle again, lock free, after a
\* login and a logout that both failed through all their attempts
C35_Witness ==
    /\ cycles = 1
    /\ pc["cron"] = "idle"
    /\ ~executionLock.locked
    /\ faults = 0
    /\ Len(logs) = 2
    /\ logs[1].action = "login" /\ logs[1].error = "Login action failed"
    /\ logs[2].action = "logout" /\ logs[2].error = "Logout action failed"

-----------------------------------------------------------------------------
(* Properties of the state of the execution lock *)

\* C36: a free lock has neither source nor startTime; a held lock has the
\* source passed to the acquireLock that succeeded last, with no release
\* since, and the startTime read by that call; releaseLock leaves the free
\* state with both absent, from a held lock as from a free one; and
\* getLockStatus reports these three fields
C36_LockStateIsWellFormed ==
    /\ ~executionLock.locked => executionLock = Unlocked
    /\ executionLock.locked =>
          /\ executionLock.source \in LockSources
          /\ executionLock.startTime # NoTime
          /\ \E i \in 1..Len(lockTrace) :
                /\ lockTrace[i].op = "acquire"
                /\ lockTrace[i].returned = TRUE
                /\ lockTrace[i].source = executionLock.source
                /\ lockTrace[i].at = executionLock.startTime
                /\ \A j \in (i + 1)..Len(lockTrace) :
                      lockTrace[j].op = "acquire" /\ ~lockTrace[j].returned
    /\ \A i \in 1..Len(lockTrace) :
          lockTrace[i].op = "release" => lockTrace[i].status = Unlocked
    /\ Len(lockTrace) > 0 =>
          lockTrace[Len(lockTrace)].status = executionLock

\* acquire('cron'), release(), release() again on the free lock, then
\* acquire('manual'), refused to nobody: the lock is held by manual
C36_Witness ==
    /\ Len(lockTrace) = 4
    /\ lockTrace[1].op = "acquire" /\ lockTrace[1].source = "cron"
    /\ lockTrace[2].op = "release"
    /\ lockTrace[3].op = "release"
    /\ lockTrace[4].op = "acquire" /\ lockTrace[4].returned = TRUE
    /\ executionLock.locked
    /\ executionLock.source = "manual"
    /\ executionLock.startTime = lockTrace[4].at

-----------------------------------------------------------------------------
(* Properties of the store under concurrent writers *)

\* what a sync request stores in a record
SyncedPart(user) ==
    [id |-> user.id, password |-> user.password,
     loginTime |-> user.loginTime, logoutTime |-> user.logoutTime,
     weekdays |-> user.weekdays]

\* what the cycle stores in a record: the status without the randomized
\* times, which a sync request may clear
StatusPart(user) ==
    IF HasStatus(user)
    THEN <<[Status(user) EXCEPT !.randomizedLoginTime = NoTime,
                                !.randomizedLogoutTime = NoTime]>>
    ELSE <<>>

\* C37: no write of a cycle (lazy reset or status update) loses or reverts
\* what a completed sync request stored, and no write of a sync request
\* loses what the cycle stored: a step of a cycle leaves the number of
\* records and the id, password, schedule and weekdays of every record on
\* file as they are, a step of a sync request leaves the status of every
\* record as it is
C37_SyncAndCycleWritesBothKept ==
    [][ /\ (\E h \in CycleHandlers : pc'[h] # pc[h]) =>
              /\ Len(users') = Len(users)
              /\ \A i \in 1..Len(users) :
                    SyncedPart(users'[i]) = SyncedPart(users[i])
        /\ (\E s \in SyncHandlers : pc'[s] # pc[s]) =>
              /\ Len(users') = Len(users)
              /\ \A i \in 1..Len(users) :
                    StatusPart(users'[i]) = StatusPart(users[i]) ]_vars

-----------------------------------------------------------------------------
(* Properties of the status across midnight and of the log *)

\* the success flag of the action is set in the status of the user under
\* the date
FlagSet(user, action, date) ==
    /\ HasStatus(user)
    /\ Status(user).date = date
    /\ IF action = "login" THEN Status(user).loginSuccess
       ELSE Status(user).logoutSuccess

\* C38: a success flag appears in the store under the date D only through
\* the status update of an entry for that user and action whose cycle read
\* D as its current date: an action that was eligible before midnight and
\* is completed after midnight sets no flag of the following day
C38_FlagSetOnlyForTheDayOfItsCycle ==
    [][ \A i \in 1..Len(users'), action \in {"login", "logout"} :
          LET D == StatusDate(users'[i])
              j == FindIndex(users, users'[i].id)
          IN  ( /\ FlagSet(users'[i], action, D)
                /\ j = 0 \/ ~FlagSet(users[j], action, D) ) =>
              \E h \in CycleHandlers :
                  /\ pc[h] = "okWrite" /\ pc'[h] = "log"
                  /\ Entry(h).user.id = users'[i].id
                  /\ Entry(h).action = action
                  /\ ctx[h].currentDate = D ]_vars

\* C39: a log line with success = true is appended for a user and an
\* action only when the success flag of that action is on file for the
\* user, written by the status update of the entry; after a provider call
\* that succeeded and a status update that could not be persisted, the
\* line appended records a failure
C39_SuccessLoggedOnlyAfterFlagStored ==
    [][ ( /\ Len(logs') = Len(logs) + 1
          /\ logs'[Len(logs')].success ) =>
          \E i \in 1..Len(users) :
              /\ users[i].id = logs'[Len(logs')].userId
              /\ FlagSet(users[i], logs'[Len(logs')].action,
                         StatusDate(users[i])) ]_vars

====
